---------------------------- MODULE Spec2Model ----------------------------
(***************************************************************************)
(* A model of libmdbx-bindings: the typed transaction layer (LibmdbxTx),   *)
(* the provider (LibmdbxProvider), the table registry generated by the     *)
(* tables! macro and the zero-copy codec of traits.rs, over an MDBX-style  *)
(* engine (one writer, snapshot readers, named sub-databases).             *)
(***************************************************************************)
EXTENDS Integers, Sequences, FiniteSets, TLC

\* ------------------------------------------------------------------ bounds
\* Longest `hi` string of a sampled value.
MaxStr == 2
\* Most typed operations the closures of one behaviour issue together.
MaxOps == 2
\* Most engine calls that fail in one behaviour.
MaxFaults == 1
\* Most provider calls (init_db, write, read) in one behaviour.
MaxCalls == 3

\* ---------------------------------------------------------------- registry
\* tables!(MyTables, NUM_TABLES, [..]): the registry has NUM_TABLES members.
NUM_TABLES == 2

\* The table types declared with db_table!; NAME is stringify!($table).
TableNames == <<"EmptyStrategyTable", "SecondTable", "ThirdTable", "FourthTable">>

\* The enum's members, by their #[repr(u8)] discriminant.
Members == 0 .. (NUM_TABLES - 1)

\* pub const ALL: [$set_name; $num_tables] = [$($set_name::$table,)*]
ALL == [i \in 1 .. NUM_TABLES |-> i - 1]

\* pub const fn name(&self) -> &str
name(t) == TableNames[t + 1]

Names == {name(t) : t \in Members}

from_str_first(s) ==
    IF \E t \in Members : name(t) = s
    THEN [ok |-> TRUE, t |-> 0]
    ELSE [ok |-> FALSE, t |-> 0]

\* fn from_str(s: &str) -> Result<Self, String>: the member or "Unknown table".
from_str(s) ==
    IF \E t \in Members : name(t) = s
    THEN [ok |-> TRUE, t |-> CHOOSE t \in Members : name(t) = s]
    ELSE [ok |-> FALSE, t |-> 0]

\* pub const fn table_type(&self) -> TableType of the registry enum: every arm
\* of its match is TableType::Table.
set_table_type(t) == "Table"

as_usize_first(t) == 0

\* fn as_usize(&self) -> usize { *self as usize }
as_usize(t) == t

\* ------------------------------------------------------------------- codec
Byte == {1, 2}

RECURSIVE SeqsUpTo(_, _)
SeqsUpTo(S, n) ==
    IF n = 0 THEN {<<>>}
    ELSE LET shorter == SeqsUpTo(S, n - 1)
         IN shorter \cup {Append(s, b) : s \in {x \in shorter : Len(x) = n - 1}, b \in S}

\* The sampled typed values: Thing { hi: String, this: f64 } of the test.
Things == [hi : SeqsUpTo(Byte, MaxStr), this : Byte]

NoThing == [hi |-> <<>>, this |-> 0]

\* The sampled keys (the test's table has u8 keys 100 and 101).
Keys == {100, 101}

\* rkyv::to_bytes(self): the out-of-line data (the string's bytes) first, the
\* root object (the string's length and the number) last.
to_bytes(v) == v.hi \o <<Len(v.hi), v.this>>

\* rkyv::to_bytes of a u8 key: the one byte.
to_bytes_key(k) == <<k>>

\* fn encode_wrapped(&self, out): out.put_slice(&rkyv::to_bytes(self).unwrap())
encode_wrapped(v) == to_bytes(v)

\* rkyv::archived_root reads the root at the END of the buffer; it validates
\* nothing. RootFits says the buffer holds a root and the string it points to.
RootFits(buf) ==
    /\ Len(buf) >= 2
    /\ buf[Len(buf) - 1] <= Len(buf) - 2

archived_root(buf) ==
    LET n == Len(buf)
        l == buf[n - 1]
    IN [hi |-> SubSeq(buf, n - 1 - l, n - 2), this |-> buf[n]]

\* fn decode_wrapped(buf) -> alloy_rlp::Result<Self>: always Ok(deserialize(
\* archived_root(buf))); on a buffer that holds no root the unchecked read is
\* undefined behaviour: any value, or the process stops.
decode_wrapped(buf) ==
    IF RootFits(buf)
    THEN {[st |-> "Ok", val |-> archived_root(buf)]}
    ELSE {[st |-> "Ok", val |-> v] : v \in Things} \cup {[st |-> "Abort", val |-> NoThing]}

\* The zstd frame: the magic number 0xFD2FB528 (little endian), then one block:
\* <<1, n, b>> (RLE: n times the byte b) or <<0, n>> and n raw bytes.
ZstdMagic == <<40, 181, 47, 253>>

AllSame(s) == Len(s) > 1 /\ \A i \in 1 .. Len(s) : s[i] = s[1]

\* zstd::encode_all(&*encoded, 0)
zstd_encode_all(data) ==
    ZstdMagic \o (IF AllSame(data) THEN <<1, Len(data), data[1]>> ELSE <<0, Len(data)>> \o data)

IsFrame(buf) ==
    /\ Len(buf) >= 6
    /\ SubSeq(buf, 1, 4) = ZstdMagic
    /\ \/ buf[5] = 1 /\ Len(buf) = 7
       \/ buf[5] = 0 /\ Len(buf) = 6 + buf[6]

\* zstd::decode_all(&*binding): Ok(bytes) of a frame, Err otherwise.
zstd_decode_all(buf) ==
    IF ~IsFrame(buf) THEN [ok |-> FALSE, data |-> <<>>]
    ELSE IF buf[5] = 1 THEN [ok |-> TRUE, data |-> [i \in 1 .. buf[6] |-> buf[7]]]
    ELSE [ok |-> TRUE, data |-> SubSeq(buf, 7, Len(buf))]

compress_to_buf_wrapped_raw(v) == encode_wrapped(v)

\* fn compress_to_buf_wrapped(&self, buf): encode_wrapped, zstd::encode_all,
\* put_slice.
compress_to_buf_wrapped(v) == zstd_encode_all(encode_wrapped(v))

\* fn decompress_wrapped(value) -> Result<Self, DatabaseError>:
\* zstd::decode_all(..).unwrap() panics on a non-frame; decode_wrapped's Err is
\* mapped to DatabaseError::Decode.
decompress_wrapped(value) ==
    LET d == zstd_decode_all(value)
    IN IF ~d.ok THEN {[st |-> "Panic", val |-> NoThing]}
       ELSE decode_wrapped(d.data)

\* fn encode_key_wrapped(self) -> Vec<u8>
encode_key_wrapped(k) == to_bytes_key(k)

\* fn decode_wrapped_key(value) -> Result<Self, DatabaseError>: the root of a
\* u8 is the last byte of the buffer; an empty buffer is undefined behaviour.
decode_wrapped_key(value) ==
    IF Len(value) >= 1
    THEN {[st |-> "Ok", key |-> value[Len(value)]]}
    ELSE {[st |-> "Ok", key |-> k] : k \in Keys} \cup {[st |-> "Abort", key |-> 0]}

\* impl Compress for Wrapper<T>: self.0.compress_to_buf_wrapped(buf)
Compress(v) == compress_to_buf_wrapped(v)

\* impl Decompress for Wrapper<T>: Ok(Wrapper(T::decompress_wrapped(value)?))
Decompress(value) == decompress_wrapped(value)

\* impl Encode for Wrapper<T>: T::encode_key_wrapped(self.0)
Encode(k) == encode_key_wrapped(k)

\* impl Decode for Wrapper<T>: Ok(Wrapper(T::decode_wrapped_key(value)?))
Decode(value) == decode_wrapped_key(value)


\* ------------------------------------------------------------------ engine
\* The storage engine behind libmdbx_native::{Environment, Transaction}: named
\* sub-databases of raw key/value pairs. A state of it (the committed state,
\* or the view of one transaction) gives each table its creation flags
\* ("none": the table does not exist) and its pairs <<key bytes, value bytes>>.
Vals == {[hi |-> <<1>>, this |-> 2], [hi |-> <<2, 2>>, this |-> 2]}

KeyBytes == {Encode(k) : k \in Keys}

ValBytes == {Compress(v) : v \in Vals}

EmptyDb == [flags |-> [n \in Names |-> "none"], data |-> [n \in Names |-> {}]]

Exists(s) == {n \in Names : s.flags[n] # "none"}

\* The engine's handles: 0 and 1 are its own tables, a named table gets the
\* next free one; None in the cache is written NoDbi.
NoDbi == 0

DbiOf(n) == 1 + CHOOSE i \in 1 .. Len(TableNames) : TableNames[i] = n

NameOfDbi(d) == TableNames[d - 1]

\* Option<&[u8]>
NoneBytes == [some |-> FALSE, b |-> <<>>]

SomeBytes(b) == [some |-> TRUE, b |-> b]

\* Transaction::open_db(Some(name)): the handle of an existing table.
open_db(s, n, fault) ==
    IF fault \/ n \notin Exists(s) THEN [ok |-> FALSE, dbi |-> NoDbi]
    ELSE [ok |-> TRUE, dbi |-> DbiOf(n)]

\* Transaction::create_db(Some(name), flags): creates the table when it is
\* missing, opens it when it exists with the same flags.
create_db(s, n, flags, fault) ==
    IF fault \/ (s.flags[n] # "none" /\ s.flags[n] # flags) THEN [ok |-> FALSE, s |-> s]
    ELSE [ok |-> TRUE, s |-> [s EXCEPT !.flags[n] = flags]]

ValuesOf(s, d, kb) == {pr[2] : pr \in {q \in s.data[NameOfDbi(d)] : q[1] = kb}}

\* The engine's order of byte strings: lexicographic.
RECURSIVE LexLess(_, _)
LexLess(a, b) ==
    IF Len(a) = 0 THEN Len(b) > 0
    ELSE IF Len(b) = 0 THEN FALSE
    ELSE IF a[1] # b[1] THEN a[1] < b[1]
    ELSE LexLess(Tail(a), Tail(b))

First(S) == CHOOSE x \in S : \A y \in S \ {x} : LexLess(x, y)

\* Transaction::get(dbi, key): the (first) value under the key.
engine_get(s, d, kb) ==
    IF ValuesOf(s, d, kb) = {} THEN NoneBytes ELSE SomeBytes(First(ValuesOf(s, d, kb)))

engine_put_replaces(s, d, kb, vb, fault) ==
    LET n == NameOfDbi(d)
    IN IF fault THEN [ok |-> FALSE, s |-> s]
       ELSE [ok |-> TRUE, s |-> [s EXCEPT !.data[n] = {q \in @ : q[1] # kb} \cup {<<kb, vb>>}]]

\* Transaction::put(dbi, key, value, WriteFlags::UPSERT): a plain table keeps
\* one value per key, a DUP_SORT table adds the value to the key's group.
engine_put(s, d, kb, vb, fault) ==
    LET n == NameOfDbi(d)
    IN IF fault THEN [ok |-> FALSE, s |-> s]
       ELSE IF s.flags[n] = "DupSort"
            THEN [ok |-> TRUE, s |-> [s EXCEPT !.data[n] = @ \cup {<<kb, vb>>}]]
            ELSE [ok |-> TRUE,
                  s |-> [s EXCEPT !.data[n] = {q \in @ : q[1] # kb} \cup {<<kb, vb>>}]]

\* Transaction::del(dbi, key, data): without data every value of the key goes;
\* with data only the pair with that value. True when something was removed.
engine_del(s, d, kb, data) ==
    LET n == NameOfDbi(d)
        gone == IF data.some THEN {q \in s.data[n] : q = <<kb, data.b>>}
                ELSE {q \in s.data[n] : q[1] = kb}
    IN [removed |-> gone # {}, s |-> [s EXCEPT !.data[n] = @ \ gone]]

engine_clear_db_all(s, d) == [s EXCEPT !.data = [n \in Names |-> {}]]

\* Transaction::clear_db(dbi)
engine_clear_db(s, d) == [s EXCEPT !.data[NameOfDbi(d)] = {}]

\* Transaction::db_stat_with_dbi(dbi).entries()
engine_entries(s, d) == Cardinality(s.data[NameOfDbi(d)])


\* --------------------------------------------------------------- LibmdbxTx
\* A transaction: its kind, the engine transaction's view of the tables and
\* the handle cache db_handles. NoTx: no transaction is open.
NoTx == [kind |-> "none", view |-> EmptyDb, handles |-> <<>>]

\* Results of the typed operations: st is "Ok", "Err" or "Panic"; tag names
\* the payload (Some, None, Unit, Bool, Count, Cursor) or the DatabaseError.
Res(st, tag, val, num) == [st |-> st, tag |-> tag, val |-> val, num |-> num]

Unit == Res("Ok", "Unit", NoThing, 0)

Err(e) == Res("Err", e, NoThing, 0)

Panic(msg) == Res("Panic", msg, NoThing, 0)

new_tx_warm(kind, env) ==
    [kind |-> kind, view |-> env,
     handles |-> [i \in 1 .. NUM_TABLES |-> open_db(env, name(i - 1), FALSE).dbi]]

\* new_ro_tx / new_rw_tx: the engine transaction (a snapshot of the committed
\* state) and db_handles: vec![None; S::NUM_TABLES].
new_tx(kind, env) ==
    [kind |-> kind, view |-> env, handles |-> [i \in 1 .. NUM_TABLES |-> NoDbi]]

get_dbi_resets(tx, tn, fault) ==
    LET table == from_str(tn)
        i == as_usize(table.t) + 1
        o == open_db(tx.view, tn, fault)
        none == [j \in 1 .. Len(tx.handles) |-> NoDbi]
    IN IF ~table.ok \/ i > Len(tx.handles)
       THEN [st |-> "Panic", dbi |-> NoDbi, handles |-> tx.handles, opens |-> 0,
             opened |-> FALSE]
       ELSE IF tx.handles[i] # NoDbi
            THEN [st |-> "Ok", dbi |-> tx.handles[i], handles |-> tx.handles,
                  opens |-> 0, opened |-> FALSE]
       ELSE IF o.ok
            THEN [st |-> "Ok", dbi |-> o.dbi, handles |-> [tx.handles EXCEPT ![i] = o.dbi],
                  opens |-> 1, opened |-> TRUE]
       ELSE [st |-> "Err", dbi |-> NoDbi, handles |-> none, opens |-> 1, opened |-> FALSE]

get_dbi_no_cache(tx, tn, fault) ==
    LET o == open_db(tx.view, tn, fault)
    IN IF o.ok
       THEN [st |-> "Ok", dbi |-> o.dbi, handles |-> tx.handles, opens |-> 1, opened |-> TRUE]
       ELSE [st |-> "Err", dbi |-> NoDbi, handles |-> tx.handles, opens |-> 1, opened |-> FALSE]

\* fn get_dbi<T: Table>(&self) -> Result<DBI, DatabaseError>. opens counts the
\* open_db calls made, opened says one of them succeeded.
get_dbi(tx, tn, fault) ==
    LET table == from_str(tn)
        i == as_usize(table.t) + 1
        miss == [st |-> "Panic", dbi |-> NoDbi, handles |-> tx.handles,
                 opens |-> 0, opened |-> FALSE]
    IN IF ~table.ok \/ i > Len(tx.handles) THEN miss
       ELSE IF tx.handles[i] = NoDbi
            THEN LET o == open_db(tx.view, tn, fault)
                 IN IF o.ok
                    THEN [st |-> "Ok", dbi |-> o.dbi,
                          handles |-> [tx.handles EXCEPT ![i] = o.dbi],
                          opens |-> 1, opened |-> TRUE]
                    ELSE [st |-> "Err", dbi |-> NoDbi, handles |-> tx.handles,
                          opens |-> 1, opened |-> FALSE]
            ELSE [st |-> "Ok", dbi |-> tx.handles[i], handles |-> tx.handles,
                  opens |-> 0, opened |-> FALSE]

\* What get_dbi's failure is to the caller of a typed operation.
DbiErr(h) == IF h.st = "Panic" THEN Panic("expect") ELSE Err("InitCursor")

\* The outcome of a typed operation: its result, the transaction afterwards
\* and what get_dbi did.
Out(res, tx, view, h) ==
    [res |-> res, tx |-> [tx EXCEPT !.view = view, !.handles = h.handles], h |-> h]

\* utils::decode_one::<T>(value): Decompress::decompress of the stored bytes.
decode_one(b) == Decompress(b)

\* fn get / get_by_encoded_key: every outcome of the call.
tx_get(tx, tn, key, fault) ==
    LET h == get_dbi(tx, tn, fault)
        found == engine_get(tx.view, h.dbi, Encode(key))
    IN IF h.st # "Ok" THEN {Out(DbiErr(h), tx, tx.view, h)}
       ELSE IF ~found.some THEN {Out(Res("Ok", "None", NoThing, 0), tx, tx.view, h)}
       ELSE {Out(IF d.st = "Ok" THEN Res("Ok", "Some", d.val, 0)
                 ELSE Res(d.st, "decode", NoThing, 0), tx, tx.view, h)
             : d \in decode_one(found.b)}

\* fn entries<T>(&self) -> Result<usize, DatabaseError>
tx_entries(tx, tn, fault) ==
    LET h == get_dbi(tx, tn, fault)
    IN IF h.st # "Ok" THEN Out(DbiErr(h), tx, tx.view, h)
       ELSE Out(Res("Ok", "Count", NoThing, engine_entries(tx.view, h.dbi)), tx, tx.view, h)

\* fn new_cursor / cursor_read / cursor_write: a cursor bound to the handle.
tx_cursor(tx, tn, fault) ==
    LET h == get_dbi(tx, tn, fault)
    IN IF h.st # "Ok" THEN Out(DbiErr(h), tx, tx.view, h)
       ELSE Out(Res("Ok", "Cursor", NoThing, h.dbi), tx, tx.view, h)

\* DatabaseWriteError { info, operation, table_name, key }.into()
WriteErr(op, tn, kb) ==
    Res("Err", "Write", [info |-> "engine", operation |-> op, table_name |-> tn, key |-> kb], 0)

\* The engine's order of a key's duplicates: the stored values, ascending.
RECURSIVE DupOrder(_)
DupOrder(S) == IF S = {} THEN <<>> ELSE <<First(S)>> \o DupOrder(S \ {First(S)})

\* cursor_dup_read::<T>() and the cursor's walk over the duplicate group of
\* key: the group's values in the engine's order, each decoded.
walk_dup(tx, tn, key, fault) ==
    LET h == get_dbi(tx, tn, fault)
        group == DupOrder(ValuesOf(tx.view, h.dbi, Encode(key)))
        decoded == [i \in 1 .. Len(group) |-> CHOOSE d \in decode_one(group[i]) : TRUE]
    IN IF h.st # "Ok" THEN Out(DbiErr(h), tx, tx.view, h)
       ELSE IF \E i \in 1 .. Len(group) : decoded[i].st # "Ok"
            THEN Out(Err("Decode"), tx, tx.view, h)
       ELSE Out(Res("Ok", "Walk", [i \in 1 .. Len(group) |-> decoded[i].val], Len(group)),
                tx, tx.view, h)

tx_put_err_value(tx, tn, key, value, fault, reject) ==
    LET h == get_dbi(tx, tn, fault)
        e == engine_put(tx.view, h.dbi, Encode(key), Compress(value), reject)
    IN IF h.st # "Ok" THEN Out(DbiErr(h), tx, tx.view, h)
       ELSE IF ~e.ok THEN Out(WriteErr("Put", tn, Compress(value)), tx, tx.view, h)
       ELSE Out(Unit, tx, e.s, h)

tx_put_swapped_key(tx, tn, key, value, fault, reject) ==
    LET h == get_dbi(tx, tn, fault)
        other == CHOOSE k \in Keys : k # key
        e == engine_put(tx.view, h.dbi, Encode(other), Compress(value), reject)
    IN IF h.st # "Ok" THEN Out(DbiErr(h), tx, tx.view, h)
       ELSE IF ~e.ok THEN Out(WriteErr("Put", tn, Encode(key)), tx, tx.view, h)
       ELSE Out(Unit, tx, e.s, h)

tx_put_no_overwrite(tx, tn, key, value, fault, reject) ==
    LET h == get_dbi(tx, tn, fault)
        e == engine_put(tx.view, h.dbi, Encode(key), Compress(value), reject)
    IN IF h.st # "Ok" THEN Out(DbiErr(h), tx, tx.view, h)
       ELSE IF ~e.ok \/ ValuesOf(tx.view, h.dbi, Encode(key)) # {}
            THEN Out(WriteErr("Put", tn, Encode(key)), tx, tx.view, h)
       ELSE Out(Unit, tx, e.s, h)

\* fn put<T>(&self, key, value): key.encode(), value.compress(), engine put
\* with WriteFlags::UPSERT; the engine's error becomes DatabaseWriteError.
tx_put(tx, tn, key, value, fault, reject) ==
    LET h == get_dbi(tx, tn, fault)
        e == engine_put(tx.view, h.dbi, Encode(key), Compress(value), reject)
    IN IF h.st # "Ok" THEN Out(DbiErr(h), tx, tx.view, h)
       ELSE IF ~e.ok THEN Out(WriteErr("Put", tn, Encode(key)), tx, tx.view, h)
       ELSE Out(Unit, tx, e.s, h)

\* Option<T::Value>
NoneVal == [some |-> FALSE, v |-> NoThing]

SomeVal(v) == [some |-> TRUE, v |-> v]

tx_delete_any_value(tx, tn, key, value, fault) ==
    LET h == get_dbi(tx, tn, fault)
        e == engine_del(tx.view, h.dbi, Encode(key), NoneBytes)
    IN IF h.st # "Ok" THEN Out(DbiErr(h), tx, tx.view, h)
       ELSE Out(Res("Ok", "Bool", NoThing, IF e.removed THEN 1 ELSE 0), tx, e.s, h)

tx_delete_keeps(tx, tn, key, value, fault) ==
    LET h == get_dbi(tx, tn, fault)
        data == IF value.some THEN SomeBytes(Compress(value.v)) ELSE NoneBytes
        e == engine_del(tx.view, h.dbi, Encode(key), data)
    IN IF h.st # "Ok" THEN Out(DbiErr(h), tx, tx.view, h)
       ELSE Out(Res("Ok", "Bool", NoThing, IF e.removed THEN 1 ELSE 0), tx, tx.view, h)

\* fn delete<T>(&self, key, value: Option<T::Value>) -> Result<bool, _>
tx_delete(tx, tn, key, value, fault) ==
    LET h == get_dbi(tx, tn, fault)
        data == IF value.some THEN SomeBytes(Compress(value.v)) ELSE NoneBytes
        e == engine_del(tx.view, h.dbi, Encode(key), data)
    IN IF h.st # "Ok" THEN Out(DbiErr(h), tx, tx.view, h)
       ELSE Out(Res("Ok", "Bool", NoThing, IF e.removed THEN 1 ELSE 0), tx, e.s, h)

\* fn clear<T>(&self) -> Result<(), DatabaseError>
tx_clear(tx, tn, fault) ==
    LET h == get_dbi(tx, tn, fault)
    IN IF h.st # "Ok" THEN Out(DbiErr(h), tx, tx.view, h)
       ELSE Out(Unit, tx, engine_clear_db(tx.view, h.dbi), h)

\* DatabaseFlags of create_table: TableType::Table => default, DupSort =>
\* DUP_SORT.
FlagsOf(tt) == IF tt = "DupSort" THEN "DupSort" ELSE "Table"

\* db_table!: impl TableDet: fn table_type(&self) { TableType::Table }
table_type(t) == "Table"

\* create_table::<T> for a table type T named n whose TableDet::table_type()
\* is tt (db_table! or a hand-written impl).
create_table_of(tx, n, tt, fault) ==
    LET c == create_db(tx.view, n, FlagsOf(tt), fault)
    IN [res |-> IF c.ok THEN Unit ELSE Err("CreateTable"), tx |-> [tx EXCEPT !.view = c.s]]

create_table_skips(tx, t, fault) == [res |-> Unit, tx |-> tx]

create_table_clears(tx, t, fault) ==
    LET c == create_db(tx.view, name(t), FlagsOf(table_type(t)), fault)
    IN [res |-> IF c.ok THEN Unit ELSE Err("CreateTable"),
        tx |-> [tx EXCEPT !.view = IF c.ok THEN [c.s EXCEPT !.data[name(t)] = {}] ELSE c.s]]

\* fn create_table<T: TableDet>(&self, table: &T) -> Result<(), DatabaseError>
create_table(tx, t, fault) ==
    LET c == create_db(tx.view, name(t), FlagsOf(table_type(t)), fault)
    IN [res |-> IF c.ok THEN Unit ELSE Err("CreateTable"), tx |-> [tx EXCEPT !.view = c.s]]


\* ------------------------------------------------------------------- state
Procs == {1, 2}

NoProc == 0

VARIABLES
    loc,       \* the database location on disk: its directory and version marker
    db,        \* the engine's committed state
    writer,    \* the caller holding the engine's one write transaction, or NoProc
    provider,  \* "closed", or "open" once init_db has returned Ok(this)
    pc,        \* per caller: "idle", "check", "open", "begin", "create", "run", "commit",
               \* "returned"
    call,      \* per caller: the provider call in progress
    tx,        \* per caller: the transaction of the call
    res,       \* per caller: the result of the closure's last typed operation
    ret,       \* per caller: what the call returned
    hist,      \* per caller: the history of the call
    model,     \* history: the typed contents that the committed writes leave
    ncalls,    \* history: the calls made
    nops,      \* history: the typed operations issued
    nfaults,   \* history: the engine calls that failed
    lockfile,  \* the storage lock of the location: "free" or "held"
    guard,     \* the thread holding the write lock of a transaction's db_handles
    threads,   \* per thread of a closure: its get_dbi call on the transaction
    cval, ckey, cbuf, cout   \* the codec's sample: value, key, bytes, last outcome

vars == <<loc, db, writer, provider, pc, call, tx, res, ret, hist, model, ncalls, nops,
          nfaults, lockfile, guard, threads, cval, ckey, cbuf, cout>>

codecVars == <<cval, ckey, cbuf, cout>>

dbiVars == <<guard, threads>>

\* ------------------------------------------------------- typed histories
\* What the typed API promises of a plain table: a map from keys to values.
EmptyModel == [n \in Names |-> [k \in Keys |-> NoneVal]]

\* One mutation a closure issues: op, table, key, value.
Mut(op, tn, key, value) == [op |-> op, tn |-> tn, key |-> key, value |-> value]

NoMut == Mut("none", "", 0, NoneVal)

ApplyMut(m, e) ==
    IF e.op = "put" THEN [m EXCEPT ![e.tn][e.key] = e.value]
    ELSE IF e.op = "delete"
         THEN IF e.value.some /\ m[e.tn][e.key] # e.value THEN m
              ELSE [m EXCEPT ![e.tn][e.key] = NoneVal]
    ELSE IF e.op = "clear" THEN [m EXCEPT ![e.tn] = [k \in Keys |-> NoneVal]]
    ELSE m

\* The typed contents a state of the engine holds.
TypedOf(s) ==
    [n \in Names |->
        [k \in Keys |->
            IF \E q \in s.data[n] : q[1] = Encode(k)
            THEN SomeVal(CHOOSE v \in Things : \E q \in s.data[n] : q = <<Encode(k), Compress(v)>>)
            ELSE NoneVal]]

NoRet == [st |-> "none", err |-> "", r |-> Unit]

\* The history of one call: the committed state when its transaction began
\* (base) and when it returned (after); the typed contents at the begin
\* (snap), with the mutations that returned Ok (typed) and with all the
\* mutations the closure issued (intent); per table the open_db calls that
\* succeeded and failed, and whether a typed operation used the table; whether
\* the committed state had moved on from base when the last operation ran
\* (stale); the begins, closure invocations and commits; the place in
\* create_tables' loop; whether an engine call of it failed.
NoHist == [base |-> EmptyDb, after |-> EmptyDb,
           snap |-> EmptyModel, typed |-> EmptyModel, intent |-> EmptyModel,
           opened |-> [n \in Names |-> 0], failed |-> [n \in Names |-> 0],
           used |-> [n \in Names |-> FALSE], stale |-> FALSE,
           nbegin |-> 0, ninvoke |-> 0, ncommit |-> 0, idx |-> 1, faulted |-> FALSE]

\* A thread's get_dbi call: where it is (outside, waiting for the write lock,
\* holding it before the check, in open_db, holding it after the store), the
\* table, and what the call returned.
Frame(at, tn, st, dbi) == [at |-> at, tn |-> tn, st |-> st, dbi |-> dbi]

NoFrame == Frame("out", "", "none", NoDbi)

\* The codec's sample before any conversion.
NoOut == [op |-> "none", st |-> "none", val |-> NoThing, key |-> 0, tn |-> ""]

\* The location init_db is given: no directory, an empty directory, or a
\* directory with files in it, whose version marker is missing, of this
\* version, of another version, or unreadable.
Markers == {"missing", "ok", "mismatch", "malformed"}

Location(dir, marker) == [dir |-> dir, marker |-> marker]

Locations ==
    {Location("absent", "missing"), Location("empty", "missing")}
        \cup {Location("used", m) : m \in Markers}

Init ==
    /\ loc = Location("absent", "missing")
    /\ db = EmptyDb
    /\ writer = NoProc
    /\ provider = "closed"
    /\ pc = [p \in Procs |-> "idle"]
    /\ call = [p \in Procs |-> "none"]
    /\ tx = [p \in Procs |-> NoTx]
    /\ res = [p \in Procs |-> Unit]
    /\ ret = [p \in Procs |-> NoRet]
    /\ hist = [p \in Procs |-> NoHist]
    /\ model = EmptyModel
    /\ ncalls = 0
    /\ nops = 0
    /\ nfaults = 0
    /\ lockfile = "free"
    /\ guard = NoProc
    /\ threads = [p \in Procs |-> NoFrame]
    /\ cval = NoThing /\ ckey = 0 /\ cbuf = <<>> /\ cout = NoOut

\* ---------------------------------------------------------------- provider
Ret(st, err, r) == [st |-> st, err |-> err, r |-> r]

rw_slot_always(w) == TRUE

\* Environment::begin_rw_txn (new_rw_tx): the engine gives its one write
\* transaction to a caller only when no other caller holds it.
rw_slot_free(w) == w = NoProc

ro_view_live(snapshot, committed) == committed

\* Environment::begin_ro_txn (new_ro_tx): a read transaction reads the
\* snapshot taken when it began, whatever is committed meanwhile.
ro_view(snapshot, committed) == snapshot

TxOf_committed(p) == [tx[p] EXCEPT !.view = db]

\* The transaction a typed operation of caller p runs on.
TxOf(p) ==
    IF tx[p].kind = "RO" THEN [tx[p] EXCEPT !.view = ro_view(tx[p].view, db)] ELSE tx[p]

tx_commit_discards(t, env, fault) == [ok |-> ~fault, env |-> env, tx |-> NoTx]

tx_commit_publishes(t, env, fault) ==
    [ok |-> ~fault, env |-> IF t.kind = "RW" THEN t.view ELSE env, tx |-> NoTx]

tx_commit_leaks(t, env, fault) ==
    [ok |-> ~fault,
     env |-> IF ~fault /\ t.kind = "RW" THEN t.view ELSE env,
     tx |-> IF fault THEN t ELSE NoTx]

\* fn commit(self) -> Result<bool, DatabaseError>: consumes the transaction;
\* the engine makes a write transaction's view the committed state, or fails
\* and leaves the committed state as it was.
tx_commit(t, env, fault) ==
    [ok |-> ~fault,
     env |-> IF ~fault /\ t.kind = "RW" THEN t.view ELSE env,
     tx |-> NoTx]

abort_keeps(t, env) == [env |-> env, tx |-> t]

abort_commits(t, env) == [env |-> IF t.kind = "RW" THEN t.view ELSE env, tx |-> NoTx]

\* fn abort(self) { drop(self.inner) }, and the drop of a transaction that an
\* early return leaves behind: nothing of its view is committed.
abort(t, env) == [env |-> env, tx |-> NoTx]

finish_drops_result(c, r) == IF c.ok THEN Ret("Ok", "", Unit) ELSE Ret("Err", "Commit", Unit)

\* write / read: tx.commit()?; Ok(res)
finish(c, r) == IF c.ok THEN Ret("Ok", "", r) ELSE Ret("Err", "Commit", Unit)

Idle(p) == pc[p] = "idle"

\* write / write_async run the closure on a write transaction, read /
\* read_async on a read transaction; the async ones await the closure's future.
WriteCalls == {"write", "write_async"}

ReadCalls == {"read", "read_async"}

AsyncCalls == {"write_async", "read_async"}

\* No call has just returned: the history of a call is kept until its caller
\* has taken the result, and the callers take their results at once.
Quiet == \A q \in Procs : pc[q] # "returned"

\* The engine calls of one behaviour fail at most MaxFaults times.
MayFail(fault) == fault => nfaults < MaxFaults

Failed(fault) == IF fault THEN 1 ELSE 0

\* A caller calls init_db, write or read. init_db builds the provider (it
\* starts at the location's version check), write and read need one (&self).
Call(p, c) ==
    /\ Idle(p)
    /\ ncalls < MaxCalls
    /\ IF c = "init_db" THEN provider = "closed" /\ \A q \in Procs : Idle(q)
       ELSE provider = "open"
    /\ pc' = [pc EXCEPT ![p] = IF c = "init_db" THEN "check" ELSE "begin"]
    /\ call' = [call EXCEPT ![p] = c]
    /\ res' = [res EXCEPT ![p] = Unit]
    /\ ret' = [ret EXCEPT ![p] = NoRet]
    /\ hist' = [hist EXCEPT ![p] = NoHist]
    /\ ncalls' = ncalls + 1
    /\ UNCHANGED <<db, writer, provider, tx, model, nops, nfaults, loc, lockfile, codecVars,
                   dbiVars>>

\* StorageLock::try_acquire(path): the lock file of the location is taken
\* when no live holder is written in it.
try_acquire(lf) == lf = "free"

release_never(lf) == lf

\* The StorageLock of a DatabaseEnv is dropped with it, or with the local
\* _lock_file when DatabaseEnv::open leaves on an error after acquiring it.
release(lf) == "free"

\* init_db returns an error after DatabaseEnv::open: `this` is dropped.
DropEnv(p, failed) == IF call[p] = "init_db" /\ failed THEN release(lockfile) ELSE lockfile

\* The provider is dropped when no call borrows it.
DropProvider ==
    /\ provider = "open"
    /\ \A q \in Procs : Idle(q)
    /\ ncalls < MaxCalls
    /\ provider' = "closed"
    /\ lockfile' = release(lockfile)
    /\ UNCHANGED <<db, writer, pc, call, tx, res, ret, hist, model, ncalls, nops, nfaults,
                   loc, codecVars, dbiVars>>

\* reth_db::is_database_empty(rpath): no directory, or one without entries.
is_database_empty(l) == l.dir \in {"absent", "empty"}

check_db_version_file_lenient(l) == IF l.marker = "missing" THEN "MissingFile" ELSE "Ok"

\* reth_db::version::check_db_version_file(rpath)
check_db_version_file(l) ==
    CASE l.marker = "missing" -> "MissingFile"
      [] l.marker = "ok" -> "Ok"
      [] l.marker = "mismatch" -> "VersionMismatch"
      [] OTHER -> "MalformedFile"

\* init_db up to DatabaseEnv::open: create_dir_all on an empty location, else
\* the match on check_db_version_file. fault: the file system refuses the
\* directory or the marker file that this step writes.
CheckVersion(p, fault) ==
    LET empty == is_database_empty(loc)
        v == check_db_version_file(loc)
        writes == empty \/ v = "MissingFile"
        err == IF empty THEN "CreateDir" ELSE IF v = "MissingFile" THEN "Io" ELSE v
        fails == fault \/ (~empty /\ v \notin {"Ok", "MissingFile"})
    IN /\ pc[p] = "check"
       /\ MayFail(fault)
       /\ fault => writes
       /\ nfaults' = nfaults + Failed(fault)
       /\ IF fails
          THEN /\ pc' = [pc EXCEPT ![p] = "returned"]
               /\ ret' = [ret EXCEPT ![p] = Ret("Err", err, Unit)]
               /\ hist' = [hist EXCEPT ![p].faulted = fault]
               /\ UNCHANGED loc
          ELSE /\ pc' = [pc EXCEPT ![p] = "open"]
               /\ loc' = IF empty THEN Location("empty", "missing")
                         ELSE Location(loc.dir, "ok")
               /\ UNCHANGED <<ret, hist>>
       /\ UNCHANGED <<db, writer, provider, call, tx, res, model, ncalls, nops, lockfile,
                      codecVars, dbiVars>>

\* DatabaseEnv::open(rpath, RW, ..)?: the storage lock of the location is
\* acquired, then the engine opens its files under the location, creating
\* them when they are not there, or init_db returns the error and the lock
\* acquired is released. The sync-bytes option that follows is one the engine accepts.
OpenEnv(p, fault) ==
    /\ pc[p] = "open"
    /\ MayFail(fault)
    /\ nfaults' = nfaults + Failed(fault)
    /\ IF ~try_acquire(lockfile)
       THEN /\ pc' = [pc EXCEPT ![p] = "returned"]
            /\ ret' = [ret EXCEPT ![p] = Ret("Err", "Other", Unit)]
            /\ UNCHANGED <<loc, lockfile, hist>>
       ELSE IF fault
       THEN /\ pc' = [pc EXCEPT ![p] = "returned"]
            /\ ret' = [ret EXCEPT ![p] = Ret("Err", "Open", Unit)]
            /\ hist' = [hist EXCEPT ![p].faulted = TRUE]
            /\ lockfile' = release("held")
            /\ UNCHANGED loc
       ELSE /\ pc' = [pc EXCEPT ![p] = "begin"]
            /\ loc' = Location("used", loc.marker)
            /\ lockfile' = "held"
            /\ UNCHANGED <<ret, hist>>
    /\ UNCHANGED <<db, writer, provider, call, tx, res, model, ncalls, nops, codecVars,
                   dbiVars>>

BeginTx_retries(p, fault) ==
    LET kind == IF call[p] \in ReadCalls THEN "RO" ELSE "RW"
    IN /\ pc[p] = "begin"
       /\ MayFail(fault)
       /\ fault \/ kind = "RO" \/ rw_slot_free(writer)
       /\ IF fault
          THEN /\ hist' = [hist EXCEPT ![p].nbegin = @ + 1, ![p].faulted = TRUE,
                                       ![p].base = db, ![p].after = db]
               /\ UNCHANGED <<pc, ret, tx, writer>>
          ELSE /\ pc' = [pc EXCEPT ![p] = IF call[p] = "init_db" THEN "create" ELSE "run"]
               /\ tx' = [tx EXCEPT ![p] = new_tx(kind, db)]
               /\ writer' = IF kind = "RW" THEN p ELSE writer
               /\ hist' = [hist EXCEPT ![p].nbegin = @ + 1, ![p].base = db, ![p].after = db,
                                       ![p].snap = model, ![p].typed = model,
                                       ![p].intent = model,
                                       ![p].ninvoke = IF call[p] = "init_db" THEN 0 ELSE 1]
               /\ UNCHANGED ret
       /\ nfaults' = nfaults + Failed(fault)
       /\ UNCHANGED <<db, provider, call, res, model, ncalls, nops, loc, lockfile, codecVars,
                      dbiVars>>

\* rw_tx / ro_tx / create_tables' new_rw_tx: begin the transaction, or return
\* Err(InitTx) without running the closure.
BeginTx(p, fault) ==
    LET kind == IF call[p] \in ReadCalls THEN "RO" ELSE "RW"
    IN /\ pc[p] = "begin"
       /\ MayFail(fault)
       /\ fault \/ kind = "RO" \/ rw_slot_free(writer)
       /\ IF fault
          THEN /\ pc' = [pc EXCEPT ![p] = "returned"]
               /\ ret' = [ret EXCEPT ![p] = Ret("Err", "InitTx", Unit)]
               /\ hist' = [hist EXCEPT ![p].nbegin = @ + 1, ![p].faulted = TRUE,
                                       ![p].base = db, ![p].after = db]
               /\ UNCHANGED <<tx, writer>>
          ELSE /\ pc' = [pc EXCEPT ![p] = IF call[p] = "init_db" THEN "create" ELSE "run"]
               /\ tx' = [tx EXCEPT ![p] = new_tx(kind, db)]
               /\ writer' = IF kind = "RW" THEN p ELSE writer
               /\ hist' = [hist EXCEPT ![p].nbegin = @ + 1, ![p].base = db, ![p].after = db,
                                       ![p].snap = model, ![p].typed = model,
                                       ![p].intent = model,
                                       ![p].ninvoke = IF call[p] = "init_db" THEN 0 ELSE 1]
               /\ UNCHANGED ret
       /\ nfaults' = nfaults + Failed(fault)
       /\ lockfile' = DropEnv(p, fault)
       /\ UNCHANGED <<db, provider, call, res, model, ncalls, nops, loc, codecVars,
                      dbiVars>>

\* S::create_tables(&tx)?: one turn of `for table in Self::ALL`; an error
\* leaves create_tables before the commit and drops the transaction.
CreateStep(p, fault) ==
    LET i == hist[p].idx
        c == create_table(tx[p], ALL[i], fault)
        a == abort(tx[p], db)
    IN /\ pc[p] = "create"
       /\ MayFail(fault)
       /\ IF c.res.st = "Ok"
          THEN /\ tx' = [tx EXCEPT ![p] = c.tx]
               /\ pc' = [pc EXCEPT ![p] = IF i = NUM_TABLES THEN "commit" ELSE "create"]
               /\ hist' = [hist EXCEPT ![p].idx = i + 1]
               /\ UNCHANGED <<db, writer, ret>>
          ELSE /\ tx' = [tx EXCEPT ![p] = a.tx]
               /\ db' = a.env
               /\ writer' = NoProc
               /\ pc' = [pc EXCEPT ![p] = "returned"]
               /\ ret' = [ret EXCEPT ![p] = Ret("Err", c.res.tag, Unit)]
               /\ hist' = [hist EXCEPT ![p].faulted = fault, ![p].after = a.env]
       /\ nfaults' = nfaults + Failed(fault)
       /\ lockfile' = DropEnv(p, c.res.st # "Ok")
       /\ UNCHANGED <<provider, call, res, model, ncalls, nops, loc, codecVars, dbiVars>>

\* ----------------------------------------------------- the closure's steps
InClosure(p) == pc[p] = "run" /\ nops < MaxOps

Writes(p) == InClosure(p) /\ call[p] \in WriteCalls

HistOf(p, tn, o, mut, fault) ==
    [hist[p] EXCEPT !.opened[tn] = @ + (IF o.h.opened THEN 1 ELSE 0),
                    !.failed[tn] = @ + (IF o.h.opens = 1 /\ ~o.h.opened THEN 1 ELSE 0),
                    !.used[tn] = TRUE,
                    !.stale = (db # hist[p].base),
                    !.faulted = @ \/ fault,
                    !.typed = IF o.res.st = "Ok" THEN ApplyMut(@, mut) ELSE @,
                    !.intent = ApplyMut(@, mut)]

\* A typed operation of the closure returned: the transaction, the result
\* and the history after it. fault: the operation's open_db fails (it makes
\* one only when the cache holds no handle); reject: its engine put fails.
Done(p, tn, o, mut, fault, reject) ==
    /\ MayFail(fault \/ reject)
    /\ fault => o.h.opens = 1
    /\ reject => o.h.st = "Ok"
    /\ nfaults' = nfaults + Failed(fault \/ reject)
    /\ nops' = nops + 1
    /\ tx' = [tx EXCEPT ![p] = o.tx]
    /\ res' = [res EXCEPT ![p] = o.res]
    /\ hist' = [hist EXCEPT ![p] = HistOf(p, tn, o, mut, fault \/ reject)]
    /\ UNCHANGED <<db, writer, provider, pc, call, ret, model, ncalls, loc, lockfile,
                   codecVars, dbiVars>>

\* txn.get::<T>(key)
Get(p, tn, key, fault) ==
    /\ InClosure(p)
    /\ \E o \in tx_get(TxOf(p), tn, key, fault) : Done(p, tn, o, NoMut, fault, FALSE)

\* txn.entries::<T>()
Entries(p, tn, fault) ==
    /\ InClosure(p)
    /\ Done(p, tn, tx_entries(TxOf(p), tn, fault), NoMut, fault, FALSE)

\* txn.cursor_read::<T>() / cursor_write::<T>()
Cursor(p, tn, fault) ==
    /\ InClosure(p)
    /\ Done(p, tn, tx_cursor(TxOf(p), tn, fault), NoMut, fault, FALSE)

\* txn.put::<T>(key, value)
Put(p, tn, key, value, fault, reject) ==
    /\ Writes(p)
    /\ Done(p, tn, tx_put(TxOf(p), tn, key, value, fault, reject),
            Mut("put", tn, key, SomeVal(value)), fault, reject)

\* txn.delete::<T>(key, value)
Delete(p, tn, key, value, fault) ==
    /\ Writes(p)
    /\ Done(p, tn, tx_delete(TxOf(p), tn, key, value, fault),
            Mut("delete", tn, key, value), fault, FALSE)

\* txn.clear::<T>()
Clear(p, tn, fault) ==
    /\ Writes(p)
    /\ Done(p, tn, tx_clear(TxOf(p), tn, fault), Mut("clear", tn, 0, NoneVal), fault, FALSE)

\* The caller takes what the call returned (the test's .unwrap()).
Take(p) ==
    /\ pc[p] = "returned"
    /\ pc' = [pc EXCEPT ![p] = "idle"]
    /\ call' = [call EXCEPT ![p] = "none"]
    /\ res' = [res EXCEPT ![p] = Unit]
    /\ ret' = [ret EXCEPT ![p] = NoRet]
    /\ hist' = [hist EXCEPT ![p] = NoHist]
    /\ UNCHANGED <<db, writer, provider, tx, model, ncalls, nops, nfaults, loc, lockfile,
                   codecVars, dbiVars>>

\* The closure returns (its value is the result of its last operation, as the
\* test's closure returns txn.put(..), or () when it issued none) and write /
\* read go on to tx.commit()?; Ok(res). create_tables commits after its loop;
\* init_db returns the provider when create_tables returned Ok.
Commit(p, fault) ==
    LET c == tx_commit(tx[p], db, fault)
    IN /\ pc[p] \in {"run", "commit"}
       /\ MayFail(fault)
       /\ nfaults' = nfaults + Failed(fault)
       /\ pc' = [pc EXCEPT ![p] = "returned"]
       /\ tx' = [tx EXCEPT ![p] = c.tx]
       /\ db' = c.env
       /\ writer' = IF tx[p].kind = "RW" THEN NoProc ELSE writer
       /\ model' = IF c.ok /\ tx[p].kind = "RW" THEN hist[p].typed ELSE model
       /\ provider' = IF c.ok /\ call[p] = "init_db" THEN "open" ELSE provider
       /\ ret' = [ret EXCEPT ![p] = finish(c, res[p])]
       /\ hist' = [hist EXCEPT ![p].ncommit = @ + 1, ![p].after = c.env,
                               ![p].faulted = @ \/ fault]
       /\ lockfile' = DropEnv(p, ~c.ok)
       /\ UNCHANGED <<call, res, ncalls, nops, loc, codecVars, dbiVars>>

Bool == {FALSE, TRUE}

OptVals == {NoneVal} \cup {SomeVal(v) : v \in Vals}

Next ==
    \/ \E p \in Procs : Take(p)
    \/ Quiet /\ \E p \in Procs, c \in {"init_db", "write", "read"} : Call(p, c)
    \/ Quiet /\ DropProvider
    \/ Quiet /\ \E p \in Procs, f \in Bool : CheckVersion(p, f)
    \/ Quiet /\ \E p \in Procs, f \in Bool : OpenEnv(p, f)
    \/ Quiet /\ \E p \in Procs, f \in Bool : BeginTx(p, f)
    \/ Quiet /\ \E p \in Procs, f \in Bool : CreateStep(p, f)
    \/ Quiet /\ \E p \in Procs, tn \in Names, k \in Keys, f \in Bool : Get(p, tn, k, f)
    \/ Quiet /\ \E p \in Procs, tn \in Names, f \in Bool : Entries(p, tn, f)
    \/ Quiet /\ \E p \in Procs, tn \in Names, f \in Bool : Cursor(p, tn, f)
    \/ Quiet /\ \E p \in Procs, tn \in Names, k \in Keys, v \in Vals, f \in Bool, r \in Bool :
          Put(p, tn, k, v, f, r)
    \/ Quiet /\ \E p \in Procs, tn \in Names, k \in Keys, v \in OptVals, f \in Bool :
          Delete(p, tn, k, v, f)
    \/ Quiet /\ \E p \in Procs, tn \in Names, f \in Bool : Clear(p, tn, f)
    \/ Quiet /\ \E p \in Procs, f \in Bool : Commit(p, f)

Spec == Init /\ [][Next]_vars

\* ------------------------------------- the four calls on an open provider
Cancel_leaks(p) ==
    /\ pc[p] = "run"
    /\ call[p] \in AsyncCalls
    /\ tx' = [tx EXCEPT ![p] = NoTx]
    /\ pc' = [pc EXCEPT ![p] = "idle"]
    /\ call' = [call EXCEPT ![p] = "none"]
    /\ res' = [res EXCEPT ![p] = Unit]
    /\ UNCHANGED <<db, writer, hist, provider, ret, model, ncalls, nops, nfaults, loc,
                   lockfile, codecVars, dbiVars>>

\* The future of write_async / read_async is dropped while it waits on the
\* closure's future: the transaction it owns is dropped with it, which aborts
\* it; the lines after the await never run and nothing is returned. The
\* caller's record of the dropped call stays until its next call.
Cancel(p) ==
    LET a == abort(tx[p], db)
    IN /\ pc[p] = "run"
       /\ call[p] \in AsyncCalls
       /\ tx' = [tx EXCEPT ![p] = a.tx]
       /\ db' = a.env
       /\ writer' = IF tx[p].kind = "RW" THEN NoProc ELSE writer
       /\ pc' = [pc EXCEPT ![p] = "idle"]
       /\ call' = [call EXCEPT ![p] = "none"]
       /\ res' = [res EXCEPT ![p] = Unit]
       /\ hist' = [hist EXCEPT ![p].after = a.env]
       /\ UNCHANGED <<provider, ret, model, ncalls, nops, nfaults, loc, lockfile, codecVars,
                      dbiVars>>

\* What create_tables leaves of the registry: every table, plain and empty.
CreatedDb == [flags |-> [n \in Names |-> FlagsOf(table_type(from_str(n).t))],
              data |-> [n \in Names |-> {}]]

\* init_db has returned Ok(provider) on a fresh location; that was one call.
\* The engine can fail the begin and the commit of the calls that follow; the
\* closures' own operations are checked under Spec and SpecTx.
InitOpen ==
    /\ loc = Location("used", "missing")
    /\ db = CreatedDb
    /\ writer = NoProc
    /\ provider = "open"
    /\ pc = [p \in Procs |-> "idle"]
    /\ call = [p \in Procs |-> "none"]
    /\ tx = [p \in Procs |-> NoTx]
    /\ res = [p \in Procs |-> Unit]
    /\ ret = [p \in Procs |-> NoRet]
    /\ hist = [p \in Procs |-> NoHist]
    /\ model = EmptyModel
    /\ ncalls = 1
    /\ nops = 0
    /\ nfaults = 0
    /\ lockfile = "held"
    /\ guard = NoProc
    /\ threads = [p \in Procs |-> NoFrame]
    /\ cval = NoThing /\ ckey = 0 /\ cbuf = <<>> /\ cout = NoOut

NextCalls ==
    \/ \E p \in Procs : Take(p)
    \/ Quiet /\ \E p \in Procs, c \in WriteCalls \cup ReadCalls : Call(p, c)
    \/ Quiet /\ \E p \in Procs, f \in Bool : BeginTx(p, f)
    \/ Quiet /\ \E p \in Procs, tn \in Names, k \in Keys : Get(p, tn, k, FALSE)
    \/ Quiet /\ \E p \in Procs, tn \in Names, k \in Keys, v \in Vals :
          Put(p, tn, k, v, FALSE, FALSE)
    \/ Quiet /\ \E p \in Procs, tn \in Names, k \in Keys, v \in OptVals :
          Delete(p, tn, k, v, FALSE)
    \/ Quiet /\ \E p \in Procs, tn \in Names : Clear(p, tn, FALSE)
    \/ Quiet /\ \E p \in Procs, f \in Bool : Commit(p, f)
    \/ Quiet /\ \E p \in Procs : Cancel(p)

SpecCalls == InitOpen /\ [][NextCalls]_vars

\* ------------------------------------------------- init_db on its own
\* init_db is called on any location; a directory with files in it may hold
\* an environment that already has the tables.
InitLoc ==
    /\ loc \in Locations
    /\ db \in (IF loc.dir = "used" THEN {EmptyDb, CreatedDb} ELSE {EmptyDb})
    /\ writer = NoProc
    /\ provider = "closed"
    /\ pc = [p \in Procs |-> "idle"]
    /\ call = [p \in Procs |-> "none"]
    /\ tx = [p \in Procs |-> NoTx]
    /\ res = [p \in Procs |-> Unit]
    /\ ret = [p \in Procs |-> NoRet]
    /\ hist = [p \in Procs |-> NoHist]
    /\ model = EmptyModel
    /\ ncalls = 0
    /\ nops = 0
    /\ nfaults = 0
    /\ lockfile = "free"
    /\ guard = NoProc
    /\ threads = [p \in Procs |-> NoFrame]
    /\ cval = NoThing /\ ckey = 0 /\ cbuf = <<>> /\ cout = NoOut

NextInit ==
    \/ \E p \in Procs : Take(p)
    \/ Quiet /\ \E p \in Procs : Call(p, "init_db")
    \/ Quiet /\ DropProvider
    \/ Quiet /\ \E p \in Procs, f \in Bool : CheckVersion(p, f)
    \/ Quiet /\ \E p \in Procs, f \in Bool : OpenEnv(p, f)
    \/ Quiet /\ \E p \in Procs, f \in Bool : BeginTx(p, f)
    \/ Quiet /\ \E p \in Procs, f \in Bool : CreateStep(p, f)
    \/ Quiet /\ \E p \in Procs, f \in Bool : Commit(p, f)

SpecInit == InitLoc /\ [][NextInit]_vars


\* ------------------------------------------------------ the codec on its own
\* Bytes under a key that this codec did not write (corruption, version skew):
\* no zstd frame; a frame of no bytes; a frame whose root points outside it.
ForeignBytes == {<<1>>, ZstdMagic \o <<0, 0>>, ZstdMagic \o <<0, 2, 2, 1>>}

\* The byte inputs of decompress and decode: written by this codec
\* (compressed values, archived values, encoded keys), empty, or foreign.
ByteInputs ==
    ForeignBytes \cup ValBytes \cup KeyBytes \cup {encode_wrapped(v) : v \in Vals} \cup {<<>>}

\* The keys the codec is sampled on (u8).
CodecKeys == 98 .. 103

progVars == <<loc, db, writer, provider, pc, call, tx, res, ret, hist, model, ncalls, nops,
              nfaults, lockfile, guard, threads>>

InitCodec ==
    /\ loc = Location("absent", "missing")
    /\ db = EmptyDb
    /\ writer = NoProc
    /\ provider = "closed"
    /\ pc = [p \in Procs |-> "idle"]
    /\ call = [p \in Procs |-> "none"]
    /\ tx = [p \in Procs |-> NoTx]
    /\ res = [p \in Procs |-> Unit]
    /\ ret = [p \in Procs |-> NoRet]
    /\ hist = [p \in Procs |-> NoHist]
    /\ model = EmptyModel
    /\ ncalls = 0
    /\ nops = 0
    /\ nfaults = 0
    /\ lockfile = "free"
    /\ guard = NoProc
    /\ threads = [p \in Procs |-> NoFrame]
    /\ cval \in Things
    /\ ckey \in CodecKeys
    /\ cbuf = <<>>
    /\ cout = NoOut

\* value.compress(): Compress::compress_to_buf of the sampled value.
CompressValue ==
    /\ cout.op = "none"
    /\ cbuf' = Compress(cval)
    /\ cout' = [NoOut EXCEPT !.op = "compress", !.st = "Ok"]
    /\ UNCHANGED <<cval, ckey, progVars>>

\* Decompress::decompress of the bytes that compress produced.
DecompressValue ==
    /\ cout.op = "compress"
    /\ \E d \in Decompress(cbuf) :
          cout' = [NoOut EXCEPT !.op = "decompress", !.st = d.st, !.val = d.val]
    /\ UNCHANGED <<cval, ckey, cbuf, progVars>>

\* key.encode(): Encode::encode of the sampled key.
EncodeKey ==
    /\ cout.op = "none"
    /\ cbuf' = Encode(ckey)
    /\ cout' = [NoOut EXCEPT !.op = "encode", !.st = "Ok"]
    /\ UNCHANGED <<cval, ckey, progVars>>

\* Decode::decode of the bytes that encode produced.
DecodeKey ==
    /\ cout.op = "encode"
    /\ \E d \in Decode(cbuf) :
          cout' = [NoOut EXCEPT !.op = "decode", !.st = d.st, !.key = d.key]
    /\ UNCHANGED <<cval, ckey, cbuf, progVars>>

\* Decompress::decompress of bytes from anywhere.
DecompressBytes ==
    /\ cout.op = "none"
    /\ \E b \in ByteInputs : \E d \in Decompress(b) :
          /\ cbuf' = b
          /\ cout' = [NoOut EXCEPT !.op = "decompress_bytes", !.st = d.st, !.val = d.val]
    /\ UNCHANGED <<cval, ckey, progVars>>

\* WrapDecodable::decode_wrapped of bytes from anywhere.
DecodeBytes ==
    /\ cout.op = "none"
    /\ \E b \in ByteInputs : \E d \in decode_wrapped(b) :
          /\ cbuf' = b
          /\ cout' = [NoOut EXCEPT !.op = "decode_bytes", !.st = d.st, !.val = d.val]
    /\ UNCHANGED <<cval, ckey, progVars>>

\* Decode::decode (decode_wrapped_key) of bytes from anywhere.
DecodeKeyBytes ==
    /\ cout.op = "none"
    /\ \E b \in ByteInputs : \E d \in Decode(b) :
          /\ cbuf' = b
          /\ cout' = [NoOut EXCEPT !.op = "decode_key_bytes", !.st = d.st, !.key = d.key]
    /\ UNCHANGED <<cval, ckey, progVars>>

NextCodec ==
    \/ CompressValue
    \/ DecompressValue
    \/ EncodeKey
    \/ DecodeKey
    \/ DecompressBytes
    \/ DecodeBytes
    \/ DecodeKeyBytes

SpecCodec == InitCodec /\ [][NextCodec]_vars


\* ------------------------------------- one typed operation on sampled data
\* The table names a typed operation can name: the registry's members and a
\* table type that is declared but not listed in the registry.
AllNames == Names \cup {TableNames[NUM_TABLES + 1]}

\* What the first table holds: nothing, one key with written or foreign bytes,
\* or both keys.
FirstData ==
    {{}} \cup {{<<Encode(100), b>>} : b \in ValBytes \cup ForeignBytes}
         \cup {{<<Encode(100), Compress(v)>>, <<Encode(101), Compress(v)>>} : v \in Vals}

\* What the second table holds: nothing, one value under a key, or (a
\* duplicate-sorted table) two values under it.
SecondData ==
    {{}} \cup {{<<Encode(100), Compress(v)>>} : v \in Vals}
         \cup {{<<Encode(100), Compress(v)>> : v \in Vals}}

\* The sampled databases: every table of the registry exists, the second one
\* plain or duplicate-sorted.
SampleDbs ==
    {s \in [flags : [Names -> {"Table", "DupSort"}], data : [Names -> FirstData \cup SecondData]] :
        /\ s.flags[name(0)] = "Table"
        /\ s.data[name(0)] \in FirstData
        /\ \A n \in Names \ {name(0)} :
              /\ s.data[n] \in SecondData
              /\ s.flags[n] = "Table" => Cardinality(s.data[n]) <= 1}

\* A write transaction of caller 1 has just begun on a sampled database, or
\* create_tables of init_db has just begun its transaction on an empty one.
InitTx ==
    /\ \/ /\ db \in SampleDbs
          /\ provider = "open"
          /\ pc = [p \in Procs |-> IF p = 1 THEN "run" ELSE "idle"]
          /\ call = [p \in Procs |-> IF p = 1 THEN "write" ELSE "none"]
       \/ /\ db = EmptyDb
          /\ provider = "closed"
          /\ pc = [p \in Procs |-> IF p = 1 THEN "create" ELSE "idle"]
          /\ call = [p \in Procs |-> IF p = 1 THEN "init_db" ELSE "none"]
    /\ loc = Location("used", "missing")
    /\ writer = 1
    /\ tx = [p \in Procs |-> IF p = 1 THEN new_tx("RW", db) ELSE NoTx]
    /\ res = [p \in Procs |-> Unit]
    /\ ret = [p \in Procs |-> NoRet]
    /\ hist = [p \in Procs |-> NoHist]
    /\ model = EmptyModel
    /\ ncalls = 1
    /\ nops = 0
    /\ nfaults = 0
    /\ lockfile = "held"
    /\ guard = NoProc
    /\ threads = [p \in Procs |-> NoFrame]
    /\ cval = NoThing /\ ckey = 0 /\ cbuf = <<>> /\ cout = NoOut

\* The operation issued: its name, table, key and Option<value>.
Issued(op, tn, key, ov) ==
    [NoOut EXCEPT !.op = op, !.tn = tn, !.key = key, !.val = ov.v,
                  !.st = IF ov.some THEN "Some" ELSE "None"]

\* The closure's first typed operation returns o. A panic (or the abort of
\* the process) unwinds write: the transaction is dropped uncommitted and the
\* caller never gets a result.
TxStep(o, issued, fault) ==
    /\ pc[1] = "run" /\ nops = 0
    /\ MayFail(fault)
    /\ fault => o.h.opens = 1
    /\ nfaults' = nfaults + Failed(fault)
    /\ nops' = 1
    /\ res' = [res EXCEPT ![1] = o.res]
    /\ cout' = issued
    /\ IF o.res.st \in {"Panic", "Abort"}
       THEN /\ tx' = [tx EXCEPT ![1] = abort(o.tx, db).tx]
            /\ writer' = NoProc
            /\ pc' = [pc EXCEPT ![1] = "panicked"]
       ELSE /\ tx' = [tx EXCEPT ![1] = o.tx]
            /\ UNCHANGED <<writer, pc>>
    /\ UNCHANGED <<db, provider, call, ret, hist, model, ncalls, loc, lockfile, dbiVars, cval,
                   ckey, cbuf>>

GetOn(tn, key, fault) ==
    \E o \in tx_get(tx[1], tn, key, fault) : TxStep(o, Issued("get", tn, key, NoneVal), fault)

EntriesOn(tn, fault) ==
    TxStep(tx_entries(tx[1], tn, fault), Issued("entries", tn, 0, NoneVal), fault)

CursorOn(tn, fault) ==
    TxStep(tx_cursor(tx[1], tn, fault), Issued("cursor", tn, 0, NoneVal), fault)

PutOn(tn, key, value, fault) ==
    TxStep(tx_put(tx[1], tn, key, value, fault, FALSE),
           Issued("put", tn, key, SomeVal(value)), fault)

DeleteOn(tn, key, value, fault) ==
    TxStep(tx_delete(tx[1], tn, key, value, fault), Issued("delete", tn, key, value), fault)

ClearOn(tn, fault) ==
    TxStep(tx_clear(tx[1], tn, fault), Issued("clear", tn, 0, NoneVal), fault)

\* After a put on a duplicate-sorted table the closure walks the duplicate
\* group of the key it put.
WalkDupOn(fault) ==
    LET o == walk_dup(tx[1], cout.tn, cout.key, fault)
    IN /\ pc[1] = "run" /\ nops = 1
       /\ cout.op = "put" /\ res[1] = Unit
       /\ db.flags[cout.tn] = "DupSort"
       /\ MayFail(fault)
       /\ fault => o.h.opens = 1
       /\ nfaults' = nfaults + Failed(fault)
       /\ nops' = 2
       /\ res' = [res EXCEPT ![1] = o.res]
       /\ tx' = [tx EXCEPT ![1] = o.tx]
       /\ cout' = [cout EXCEPT !.op = "walk_dup"]
       /\ UNCHANGED <<db, writer, provider, pc, call, ret, hist, model, ncalls,
                      loc, lockfile, dbiVars, cval, ckey, cbuf>>

\* S::from_str(s), as get_dbi calls it with T::NAME.
LookupTable(str) ==
    LET r == from_str(str)
    IN /\ pc[1] = "run" /\ nops = 0
       /\ nops' = 1
       /\ cout' = [NoOut EXCEPT !.op = "from_str", !.tn = str, !.key = r.t,
                                !.st = IF r.ok THEN "Ok" ELSE "Unknown table"]
       /\ UNCHANGED <<db, writer, provider, pc, call, tx, res, ret, hist, model, ncalls,
                      nfaults, loc, lockfile, dbiVars, cval, ckey, cbuf>>

\* One turn of create_tables on the empty database: table.create_table(txn)
\* for a member whose table type is declared with the policy tt (DUPSORT and
\* TableDet::table_type() say tt).
CreateOn(t, tt, fault) ==
    LET c == create_table_of(tx[1], name(t), tt, fault)
    IN /\ pc[1] = "create" /\ nops = 0
       /\ MayFail(fault)
       /\ nfaults' = nfaults + Failed(fault)
       /\ nops' = 1
       /\ res' = [res EXCEPT ![1] = c.res]
       /\ tx' = [tx EXCEPT ![1] = c.tx]
       /\ cout' = [NoOut EXCEPT !.op = "create_table", !.tn = name(t), !.key = t, !.st = tt]
       /\ UNCHANGED <<db, writer, provider, pc, call, ret, hist, model, ncalls,
                      loc, lockfile, dbiVars, cval, ckey, cbuf>>

NextTx ==
    \/ \E tn \in AllNames, k \in Keys, f \in Bool : GetOn(tn, k, f)
    \/ \E tn \in AllNames, f \in Bool : EntriesOn(tn, f)
    \/ \E tn \in AllNames, f \in Bool : CursorOn(tn, f)
    \/ \E tn \in AllNames, k \in Keys, v \in Vals, f \in Bool : PutOn(tn, k, v, f)
    \/ \E tn \in AllNames, k \in Keys, v \in OptVals, f \in Bool : DeleteOn(tn, k, v, f)
    \/ \E tn \in AllNames, f \in Bool : ClearOn(tn, f)
    \/ \E f \in Bool : WalkDupOn(f)
    \/ \E str \in AllNames \cup {""} : LookupTable(str)
    \/ \E t \in Members, tt \in {"Table", "DupSort"}, f \in Bool : CreateOn(t, tt, f)

SpecTx == InitTx /\ [][NextTx]_vars

\* ------------------------------------------------ DatabaseEnv::open, alone
\* Two openers of one location call DatabaseEnv::open(path, kind, args) and
\* drop what it returns.
EnvCalls == {"open_rw", "open_ro"}

\* DatabaseEnv::open up to the builder: a read-write open acquires the storage
\* lock or returns Err(Other) there; a read-only open takes no lock.
EnvAcquire(p, kind) ==
    LET rw == kind = "RW"
        got == rw => try_acquire(lockfile)
    IN /\ Idle(p)
       /\ ncalls < MaxCalls
       /\ ncalls' = ncalls + 1
       /\ call' = [call EXCEPT ![p] = IF rw THEN "open_rw" ELSE "open_ro"]
       /\ pc' = [pc EXCEPT ![p] = IF got THEN "open" ELSE "returned"]
       /\ ret' = [ret EXCEPT ![p] = IF got THEN NoRet ELSE Ret("Err", "Other", Unit)]
       /\ lockfile' = IF rw /\ got THEN "held" ELSE lockfile
       /\ UNCHANGED <<loc, db, writer, provider, tx, res, hist, model, nops, nfaults,
                      codecVars, dbiVars>>

\* The failures of DatabaseEnv::open after the lock: the log level asked for
\* is not compiled in, or the engine does not open the location.
EnvFaults == {"none", "LogLevelUnavailable", "Open"}

\* The rest of DatabaseEnv::open: the builder's settings, inner_env.open(path)
\* and Ok(Self { inner, _lock_file }); an error return drops _lock_file.
EnvEngine(p, fault) ==
    LET failed == fault # "none"
    IN /\ pc[p] = "open"
       /\ call[p] \in EnvCalls
       /\ MayFail(failed)
       /\ nfaults' = nfaults + Failed(failed)
       /\ pc' = [pc EXCEPT ![p] = "returned"]
       /\ ret' = [ret EXCEPT ![p] = IF failed THEN Ret("Err", fault, Unit)
                                    ELSE Ret("Ok", "", Unit)]
       /\ lockfile' = IF failed /\ call[p] = "open_rw" THEN release(lockfile) ELSE lockfile
       /\ loc' = IF failed THEN loc ELSE Location("used", loc.marker)
       /\ UNCHANGED <<db, writer, provider, call, tx, res, hist, model, ncalls, nops,
                      codecVars, dbiVars>>

\* The opener drops what DatabaseEnv::open returned: with a read-write
\* environment its StorageLock is dropped.
EnvDrop(p) ==
    /\ pc[p] = "returned"
    /\ call[p] \in EnvCalls
    /\ pc' = [pc EXCEPT ![p] = "idle"]
    /\ call' = [call EXCEPT ![p] = "none"]
    /\ ret' = [ret EXCEPT ![p] = NoRet]
    /\ lockfile' = IF call[p] = "open_rw" /\ ret[p].st = "Ok" THEN release(lockfile)
                   ELSE lockfile
    /\ UNCHANGED <<loc, db, writer, provider, tx, res, hist, model, ncalls, nops, nfaults,
                   codecVars, dbiVars>>

NextEnv ==
    \/ \E p \in Procs, kind \in {"RW", "RO"} : EnvAcquire(p, kind)
    \/ \E p \in Procs, f \in EnvFaults : EnvEngine(p, f)
    \/ \E p \in Procs : EnvDrop(p)

SpecEnv == Init /\ [][NextEnv]_vars

\* ----------------------------------- get_dbi from the threads of a closure
\* The closure of a write call shares &tx with its threads; each thread calls
\* get_dbi::<T>() on it. The transaction is caller 1's, the threads are Procs.
Owner == 1

write_lock_shared(g) == TRUE

\* self.db_handles.write(): the RwLock gives its write guard when no thread
\* holds one.
write_lock_free(g) == g = NoProc

InitDbi ==
    /\ loc = Location("used", "missing")
    /\ db = CreatedDb
    /\ writer = Owner
    /\ provider = "open"
    /\ pc = [p \in Procs |-> IF p = Owner THEN "run" ELSE "idle"]
    /\ call = [p \in Procs |-> IF p = Owner THEN "write" ELSE "none"]
    /\ tx = [p \in Procs |-> IF p = Owner THEN new_tx("RW", db) ELSE NoTx]
    /\ res = [p \in Procs |-> Unit]
    /\ ret = [p \in Procs |-> NoRet]
    /\ hist = [p \in Procs |-> NoHist]
    /\ model = EmptyModel
    /\ ncalls = 1
    /\ nops = 0
    /\ nfaults = 0
    /\ lockfile = "held"
    /\ guard = NoProc
    /\ threads = [p \in Procs |-> NoFrame]
    /\ cval = NoThing /\ ckey = 0 /\ cbuf = <<>> /\ cout = NoOut

dbiFixed == <<loc, db, writer, provider, pc, call, res, ret, model, ncalls, lockfile,
              codecVars>>

\* A thread calls get_dbi::<T>() with T::NAME = tn.
DbiCall(p, tn) ==
    /\ threads[p].at = "out"
    /\ nops < MaxOps
    /\ nops' = nops + 1
    /\ threads' = [threads EXCEPT ![p] = Frame("wait", tn, "none", NoDbi)]
    /\ UNCHANGED <<tx, hist, nfaults, guard, dbiFixed>>

\* let mut handles = self.db_handles.write();
DbiLock(p) ==
    /\ threads[p].at = "wait"
    /\ write_lock_free(guard)
    /\ guard' = p
    /\ threads' = [threads EXCEPT ![p].at = "locked"]
    /\ UNCHANGED <<tx, hist, nops, nfaults, dbiFixed>>

\* handles.get_mut(table.as_usize()) and `if dbi_handle.is_none()`: a filled
\* slot is the result, an empty one sends the thread to open_db.
DbiCheck(p) ==
    LET slot == tx[Owner].handles[as_usize(from_str(threads[p].tn).t) + 1]
    IN /\ threads[p].at = "locked"
       /\ threads' = [threads EXCEPT ![p] =
                          IF slot = NoDbi THEN [@ EXCEPT !.at = "open"]
                          ELSE Frame("unlock", @.tn, "Ok", slot)]
       /\ UNCHANGED <<tx, hist, nops, nfaults, guard, dbiFixed>>

\* *dbi_handle = Some(self.inner.open_db(Some(T::NAME)).map_err(..)?.dbi())
DbiOpen(p, fault) ==
    LET tn == threads[p].tn
        i == as_usize(from_str(tn).t) + 1
        o == open_db(tx[Owner].view, tn, fault)
    IN /\ threads[p].at = "open"
       /\ MayFail(fault)
       /\ nfaults' = nfaults + Failed(fault)
       /\ IF o.ok
          THEN /\ tx' = [tx EXCEPT ![Owner].handles[i] = o.dbi]
               /\ hist' = [hist EXCEPT ![Owner].opened[tn] = @ + 1]
               /\ threads' = [threads EXCEPT ![p] = Frame("unlock", tn, "Ok", o.dbi)]
          ELSE /\ hist' = [hist EXCEPT ![Owner].failed[tn] = @ + 1]
               /\ threads' = [threads EXCEPT ![p] = Frame("unlock", tn, "Err", NoDbi)]
               /\ UNCHANGED tx
       /\ UNCHANGED <<nops, guard, dbiFixed>>

\* get_dbi returns: the write guard is dropped.
DbiReturn(p) ==
    /\ threads[p].at = "unlock"
    /\ guard' = NoProc
    /\ threads' = [threads EXCEPT ![p].at = "out"]
    /\ UNCHANGED <<tx, hist, nops, nfaults, dbiFixed>>

NextDbi ==
    \/ \E p \in Procs, tn \in Names : DbiCall(p, tn)
    \/ \E p \in Procs : DbiLock(p)
    \/ \E p \in Procs : DbiCheck(p)
    \/ \E p \in Procs, f \in Bool : DbiOpen(p, f)
    \/ \E p \in Procs : DbiReturn(p)

SpecDbi == InitDbi /\ [][NextDbi]_vars

\* ------------------------------------------------------------------ claims
Returned(p, c) == pc[p] = "returned" /\ call[p] = c

\* Ok(Some(v)) / Ok(None) of an Option<T::Value>.
OkOf(ov) == IF ov.some THEN Res("Ok", "Some", ov.v, 0) ELSE Res("Ok", "None", NoThing, 0)

\* C1: a get(table, k) of a read transaction returns Ok(Some(v)) when the last
\* put (k, v) committed before the transaction began stored v under k and no
\* later committed write removed it, and Ok(None) when no committed write left
\* a value under k (the engine's open_db not failing).
C1_GetAfterCommit ==
    [][\A p \in Procs, tn \in Names, k \in Keys :
          (call[p] = "read" /\ Get(p, tn, k, FALSE)) => res'[p] = OkOf(hist[p].snap[tn][k])]_vars

C1_Witness ==
    \E p \in Procs, tn \in Names, k \in Keys :
        /\ call[p] = "read" /\ pc[p] = "run"
        /\ res[p].tag = "Some"
        /\ hist[p].snap[tn][k] = SomeVal(res[p].val)
        /\ \E k2 \in Keys : ~hist[p].snap[tn][k2].some

\* C2: a call of write whose rw_tx succeeded has begun one write transaction,
\* invoked the closure once and committed once when it returns; when the
\* commit succeeded it returns Ok(r), r the closure's value, and the committed
\* state holds every mutation the closure performed; when the commit failed it
\* returns that error and the committed state is as it was.
C2_WriteOnce ==
    \A p \in Procs :
        (Returned(p, "write") /\ ret[p].err # "InitTx") =>
            /\ hist[p].nbegin = 1 /\ hist[p].ninvoke = 1 /\ hist[p].ncommit = 1
            /\ tx[p] = NoTx
            /\ db = hist[p].after
            /\ ret[p].st = "Ok" =>
                  /\ ret[p].r = res[p]
                  /\ TypedOf(db) = hist[p].typed
                  /\ model = hist[p].typed
            /\ ret[p].st # "Ok" => ret[p] = Ret("Err", "Commit", Unit) /\ db = hist[p].base

C2_Witness ==
    \E p \in Procs :
        /\ Returned(p, "write")
        /\ ret[p].st = "Ok" /\ ret[p].r.tag = "Bool" /\ ret[p].r.num = 1
        /\ hist[p].typed # hist[p].snap

\* C3: once write has returned, the committed state holds either every
\* mutation the closure issued or none of them.
C3_NoPartialCommit ==
    \A p \in Procs :
        Returned(p, "write") => TypedOf(hist[p].after) \in {hist[p].intent, hist[p].snap}

\* C4: at most one write transaction is open at a time; while it is open the
\* committed state stays the one it began on, so the committed state is always
\* the committed writes applied one after the other in their commit order.
C4_SingleWriter ==
    /\ Cardinality({p \in Procs : tx[p].kind = "RW"}) <= 1
    /\ \A p \in Procs :
          tx[p].kind = "RW" => writer = p /\ hist[p].base = db /\ hist[p].snap = model
    /\ TypedOf(db) = model

C4_Witness ==
    \E p \in Procs, q \in Procs :
        /\ p # q
        /\ pc[p] = "begin" /\ call[p] = "write"
        /\ tx[q].kind = "RW" /\ call[q] = "write"
        /\ hist[q].typed # hist[q].snap

\* C5: every get and entries of a read transaction returns what the committed
\* state held when the transaction began, whatever has been committed since.
C5_SnapshotIsolation ==
    [][\A p \in Procs, tn \in Names :
          call[p] = "read" =>
            /\ \A k \in Keys :
                  Get(p, tn, k, FALSE) => res'[p] = OkOf(TypedOf(hist[p].base)[tn][k])
            /\ Entries(p, tn, FALSE) =>
                  res'[p] = Res("Ok", "Count", NoThing, Cardinality(hist[p].base.data[tn]))]_vars

C5_Witness ==
    \E p \in Procs :
        /\ call[p] = "read" /\ pc[p] = "run"
        /\ hist[p].stale
        /\ db # hist[p].base
        /\ res[p].tag \in {"None", "Count"}

\* C6: once read has returned, with Ok or with the commit's error, the read
\* transaction it opened is no longer open.
C6_ReadReleases ==
    \A p \in Procs : Returned(p, "read") => tx[p] = NoTx

C6_Witness ==
    \E p \in Procs :
        Returned(p, "read") /\ ret[p] = Ret("Err", "Commit", Unit) /\ hist[p].ninvoke = 1

\* C7: in one transaction open_db succeeds at most once per table, and exactly
\* once for a table that a typed operation used with no open_db failing; the
\* handle the cache holds is the one a fresh open_db returns, so every
\* operation acts on the handle it would act on without the cache.
C7_HandleCache ==
    \A p \in Procs, t \in Members :
        tx[p].kind # "none" =>
            LET n == name(t)
                slot == tx[p].handles[as_usize(t) + 1]
            IN /\ hist[p].opened[n] <= 1
               /\ (hist[p].used[n] /\ hist[p].failed[n] = 0) => hist[p].opened[n] = 1
               /\ slot # NoDbi <=> hist[p].opened[n] = 1
               /\ slot # NoDbi => slot = open_db(tx[p].view, n, FALSE).dbi

C7_Witness ==
    \E p \in Procs, n \in Names :
        /\ tx[p].kind = "RW"
        /\ \A k \in Keys : hist[p].typed[n][k].some /\ ~hist[p].snap[n][k].some
        /\ hist[p].used = [m \in Names |-> m = n]
        /\ hist[p].opened[n] = 1 /\ hist[p].failed[n] = 0

\* C8: create_tables on a database that already holds every table of the
\* registry leaves the tables, their flags and their contents as they were,
\* and returns Ok unless an engine call of it fails.
C8_CreateIdempotent ==
    \A p \in Procs :
        (Returned(p, "init_db") /\ Exists(hist[p].base) = Names) =>
            /\ hist[p].after = hist[p].base
            /\ db = hist[p].base
            /\ ~hist[p].faulted => ret[p].st = "Ok"

C8_Witness ==
    \E p \in Procs, n \in Names :
        /\ Returned(p, "init_db") /\ ret[p].st = "Ok"
        /\ Exists(hist[p].base) = Names
        /\ hist[p].base.data[n] # {}

\* init_db came to this.create_tables(): it did not return from the version
\* check or from DatabaseEnv::open.
CreateTablesRan(p) ==
    ret[p].err \notin {"CreateDir", "Io", "VersionMismatch", "MalformedFile", "Other", "Open"}

\* C9: create_tables begins one write transaction; when it returns Ok every
\* table of the registry exists in the committed state, and when a
\* create_table or the commit failed the committed state is the one before
\* the call.
C9_CreateAtomic ==
    \A p \in Procs :
        (Returned(p, "init_db") /\ CreateTablesRan(p)) =>
            /\ hist[p].nbegin = 1
            /\ db = hist[p].after
            /\ tx[p] = NoTx /\ writer = NoProc
            /\ ret[p].st = "Ok" => Exists(db) = Names
            /\ ret[p].st # "Ok" => db = hist[p].base

C9_Witness ==
    \E p \in Procs :
        /\ Returned(p, "init_db")
        /\ ret[p] = Ret("Err", "CreateTable", Unit)
        /\ hist[p].idx = NUM_TABLES
        /\ Exists(hist[p].base) = {}

\* C10: decompressing the bytes that compress made of a value gives Ok of that
\* value, and decoding the bytes that encode made of a key gives Ok of that
\* key.
C10_RoundTrip ==
    /\ cout.op = "decompress" => cout.st = "Ok" /\ cout.val = cval
    /\ cout.op = "decode" => cout.st = "Ok" /\ cout.key = ckey

C10_Witness ==
    /\ cout.op = "decompress"
    /\ cbuf[5] = 1
    /\ cout.val = cval
    /\ Len(cval.hi) = MaxStr


\* The bytes the sampled database holds under a key of a table.
Stored(tn, key) == {q[2] : q \in {r \in db.data[tn] : r[1] = Encode(key)}}

\* The bytes decompress and decode: a zstd frame of bytes that end in a root.
Decodable(b) == IsFrame(b) /\ RootFits(zstd_decode_all(b).data)

\* The first operation of the sampled transaction was op on a table of the
\* registry and no engine call of it failed.
Ran(op) == cout.op = op /\ cout.tn \in Names /\ nfaults = 0

\* The other tables are as the operation found them.
OthersKept == \A n \in Names \ {cout.tn} : tx[1].view.data[n] = db.data[n]

\* C11: a get of a key whose stored bytes cannot be decompressed or decoded
\* returns Err(DatabaseError::Decode).
C11_DecodeErr ==
    (Ran("get") /\ \E b \in Stored(cout.tn, cout.key) : ~Decodable(b)) =>
        res[1].st = "Err"

\* C13: on a plain table put(k, v) returns Ok(()), leaves exactly one entry
\* for k, holding v, and every other entry as it was; the entry count grows by
\* one when k was absent and stays when k held a value.
C13_PutUpsert ==
    (Ran("put") /\ db.flags[cout.tn] = "Table") =>
        LET kb == Encode(cout.key)
            before == db.data[cout.tn]
            after == tx[1].view.data[cout.tn]
        IN /\ res[1] = Unit
           /\ {q \in after : q[1] = kb} = {<<kb, Compress(cout.val)>>}
           /\ {q \in after : q[1] # kb} = {q \in before : q[1] # kb}
           /\ Cardinality(after) =
                 Cardinality(before) + (IF Stored(cout.tn, cout.key) = {} THEN 1 ELSE 0)
           /\ tx_entries(tx[1], cout.tn, FALSE).res.num = Cardinality(after)
           /\ OthersKept

C13_Witness ==
    /\ Ran("put") /\ db.flags[cout.tn] = "Table"
    /\ \E v \in Vals : v # cout.val /\ Stored(cout.tn, cout.key) = {Compress(v)}
    /\ Cardinality(db.data[cout.tn]) = Cardinality(Keys)
    /\ tx[1].view.data[cout.tn] # db.data[cout.tn]
    /\ res[1] = Unit

\* C14: delete(k, Some(expected)) removes the entry of k whose stored value is
\* the encoding of expected and nothing else, on plain and on duplicate-sorted
\* tables; it returns Ok(true) when it removed that entry and Ok(false), with
\* the table unchanged, when k is absent or holds only other values.
C14_DeleteExpected ==
    (Ran("delete") /\ cout.st = "Some") =>
        LET pair == <<Encode(cout.key), Compress(cout.val)>>
            before == db.data[cout.tn]
        IN /\ res[1] = Res("Ok", "Bool", NoThing, IF pair \in before THEN 1 ELSE 0)
           /\ tx[1].view.data[cout.tn] = before \ {pair}
           /\ OthersKept

C14_Witness ==
    /\ Ran("delete") /\ cout.st = "Some"
    /\ db.flags[cout.tn] = "Table"
    /\ \E v \in Vals : v # cout.val /\ Stored(cout.tn, cout.key) = {Compress(v)}
    /\ res[1] = Res("Ok", "Bool", NoThing, 0)
    /\ tx[1].view = db

\* C15: on a plain table delete(k, None) removes the entry of k whatever its
\* value and returns Ok(true): a get of k in the same transaction, and in a
\* transaction begun after its commit, returns Ok(None), and entries is one
\* less; on an absent k it returns Ok(false) and changes nothing.
C15_DeleteAny ==
    (Ran("delete") /\ cout.st = "None" /\ db.flags[cout.tn] = "Table") =>
        LET held == Stored(cout.tn, cout.key) # {}
            before == db.data[cout.tn]
            after == tx[1].view.data[cout.tn]
            committed == tx_commit(tx[1], db, FALSE).env
        IN /\ res[1] = Res("Ok", "Bool", NoThing, IF held THEN 1 ELSE 0)
           /\ after = {q \in before : q[1] # Encode(cout.key)}
           /\ \A o \in tx_get(tx[1], cout.tn, cout.key, FALSE) :
                 o.res = Res("Ok", "None", NoThing, 0)
           /\ \A o \in tx_get(new_tx("RO", committed), cout.tn, cout.key, FALSE) :
                 o.res = Res("Ok", "None", NoThing, 0)
           /\ tx_entries(tx[1], cout.tn, FALSE).res.num =
                 Cardinality(before) - (IF held THEN 1 ELSE 0)
           /\ ~held => tx[1].view = db
           /\ OthersKept

C15_Witness ==
    /\ Ran("delete") /\ cout.st = "None" /\ db.flags[cout.tn] = "Table"
    /\ Cardinality(db.data[cout.tn]) = 1
    /\ Stored(cout.tn, cout.key) # {}
    /\ res[1] = Res("Ok", "Bool", NoThing, 1)
    /\ tx_entries(tx[1], cout.tn, FALSE).res.num = 0

\* C17: a typed operation on a table that is not a member of the registry, or
\* whose open_db fails, returns Err(DatabaseError).
C17_ResolutionErr ==
    (cout.op \in {"get", "entries", "cursor", "put", "delete", "clear"}
        /\ (cout.tn \notin Names \/ nfaults > 0)) =>
        res[1].st = "Err" /\ pc[1] = "run"

\* C12: decompress_wrapped returns Err for bytes that are no compressed
\* frame, and decode_wrapped / decode_wrapped_key return Err for bytes that
\* hold no archived root; none of them panics, aborts or returns Ok there.
C12_DecodeTotal ==
    /\ (cout.op = "decompress_bytes" /\ ~Decodable(cbuf)) => cout.st = "Err"
    /\ (cout.op = "decode_bytes" /\ ~RootFits(cbuf)) => cout.st = "Err"
    /\ (cout.op = "decode_key_bytes" /\ Len(cbuf) = 0) => cout.st = "Err"

\* C16: a transaction is ended once, by commit or by abort, never by both;
\* operations run only on a transaction that has not ended; and after an abort
\* the committed state is the one the transaction began on, whatever it wrote.
C16_Terminal ==
    \A p \in Procs :
        LET began == hist[p].nbegin = 1 /\ ret[p].err # "InitTx"
            aborted == ret[p].err = "CreateTable"
        IN /\ pc[p] \in {"create", "run", "commit"} <=> tx[p] # NoTx
           /\ tx[p] # NoTx => hist[p].ncommit = 0 /\ ret[p] = NoRet
           /\ (pc[p] = "returned" /\ began) =>
                 /\ hist[p].ncommit = (IF aborted THEN 0 ELSE 1)
                 /\ aborted => db = hist[p].base

C16_Witness ==
    \E p \in Procs :
        /\ pc[p] = "returned"
        /\ ret[p].err = "CreateTable"
        /\ tx[p] = NoTx
        /\ hist[p].ncommit = 0
        /\ hist[p].idx > 1
        /\ db = hist[p].base

\* C18: from_str(t.name()) is Ok(t) for every member t of the registry,
\* distinct members have distinct names, and from_str(s) is the 'Unknown
\* table' error for every s that is no member's name.
C18_NameLookup ==
    /\ \A t \in Members, u \in Members : name(t) = name(u) => t = u
    /\ cout.op = "from_str" =>
          /\ \A t \in Members : cout.tn = name(t) => cout.st = "Ok" /\ cout.key = t
          /\ cout.tn \notin Names => cout.st = "Unknown table"

C18_Witness ==
    /\ cout.op = "from_str"
    /\ cout.st = "Ok"
    /\ cout.key = NUM_TABLES - 1
    /\ cout.tn = name(NUM_TABLES - 1)

\* C19: create_table of a registry member creates the table with DUP_SORT
\* exactly when the member's table type is declared duplicate-sorted, and the
\* registry's table_type of the member is the declared policy.
C19_FlagsOfPolicy ==
    (cout.op = "create_table" /\ nfaults = 0) =>
        /\ res[1] = Unit
        /\ tx[1].view.flags[cout.tn] = cout.st
        /\ set_table_type(cout.key) = cout.st

\* C20: init_db checks the location before it opens the environment. A
\* marker of another version makes it return the error at once: nothing is
\* opened, no transaction begins, no table is created. A missing marker in a
\* directory with files is created, and no directory or an empty one is
\* created, and init_db goes on to open the environment (unless the file
\* system refuses the write).
C20_VersionCheck ==
    [][\A p \in Procs :
          (pc[p] = "check" /\ pc'[p] # "check" /\ nfaults' = nfaults) =>
              CASE loc.dir \in {"absent", "empty"} ->
                      /\ pc'[p] = "open"
                      /\ loc' = Location("empty", "missing")
                [] loc.dir = "used" /\ loc.marker = "missing" ->
                      /\ pc'[p] = "open"
                      /\ loc' = Location("used", "ok")
                [] loc.dir = "used" /\ loc.marker = "mismatch" ->
                      /\ pc'[p] = "returned"
                      /\ ret'[p] = Ret("Err", "VersionMismatch", Unit)
                      /\ hist'[p].nbegin = 0
                      /\ tx'[p] = NoTx
                      /\ UNCHANGED <<loc, db, provider, writer>>
                [] OTHER -> TRUE]_vars

C20_Witness ==
    \E p \in Procs :
        /\ Returned(p, "init_db")
        /\ ret[p] = Ret("Err", "VersionMismatch", Unit)
        /\ loc = Location("used", "mismatch")
        /\ hist[p].nbegin = 0
        /\ provider = "closed"
        /\ db = CreatedDb

\* C21: when init_db has returned Ok(provider), on a new or on an existing
\* database, every table of the registry exists in the committed state; it
\* exists in the view of every transaction of a later call, so the open_db of
\* a typed operation fails only when the engine fails it.
C21_TablesExist ==
    /\ provider = "open" => Exists(db) = Names
    /\ \A p \in Procs :
          (Returned(p, "init_db") /\ ret[p].st = "Ok") =>
              provider = "open" /\ Exists(db) = Names
    /\ \A p \in Procs, n \in Names :
          (call[p] \in WriteCalls \cup ReadCalls /\ tx[p].kind # "none") =>
              /\ n \in Exists(tx[p].view)
              /\ hist[p].failed[n] > 0 => hist[p].faulted

C21_Witness ==
    \E p \in Procs, n \in Names :
        /\ call[p] = "read" /\ tx[p].kind = "RO"
        /\ hist[p].opened[n] = 1
        /\ hist[p].base.data[n] # {}
        /\ provider = "open"

\* C22: write_async and read_async behave as write and read: when the call
\* runs its closure, one transaction has been begun and none committed, and a
\* write transaction keeps every other write transaction from beginning, at
\* every suspension of the closure; when the call returns it has begun once,
\* invoked the closure once and committed once, after the closure's future
\* completed; a successful commit returns Ok of the closure's result and (for
\* the write calls) makes the closure's writes the committed state.
C22_AsyncSame ==
    /\ Cardinality({p \in Procs : tx[p].kind = "RW"}) <= 1
    /\ \A p \in Procs :
          call[p] \in WriteCalls \cup ReadCalls =>
              /\ pc[p] = "run" =>
                    /\ tx[p].kind = (IF call[p] \in WriteCalls THEN "RW" ELSE "RO")
                    /\ hist[p].nbegin = 1 /\ hist[p].ninvoke = 1 /\ hist[p].ncommit = 0
                    /\ call[p] \in WriteCalls => writer = p /\ db = hist[p].base
              /\ (pc[p] = "returned" /\ ret[p].err # "InitTx") =>
                    /\ hist[p].nbegin = 1 /\ hist[p].ninvoke = 1 /\ hist[p].ncommit = 1
                    /\ tx[p] = NoTx
                    /\ ret[p].st = "Ok" =>
                          /\ ret[p].r = res[p]
                          /\ call[p] \in WriteCalls => TypedOf(db) = hist[p].typed
                    /\ ret[p].st # "Ok" => ret[p] = Ret("Err", "Commit", Unit)

C22_Witness ==
    \E p \in Procs, q \in Procs :
        /\ Returned(p, "write_async")
        /\ ret[p] = Ret("Ok", "", Unit)
        /\ hist[p].typed # hist[p].snap
        /\ TypedOf(db) = hist[p].typed
        /\ pc[q] = "begin" /\ call[q] \in WriteCalls

\* C26: write, read and their async variants retry nothing. A call whose
\* begin failed has made one begin attempt, has not invoked the closure, has
\* committed nothing and returns Err(InitTx); a call whose commit failed has
\* made one commit attempt and returns the commit's error; no call returns Ok
\* after a failed begin or commit.
C26_NoRetry ==
    \A p \in Procs :
        (pc[p] = "returned" /\ call[p] \in WriteCalls \cup ReadCalls) =>
            /\ hist[p].nbegin = 1 /\ hist[p].ncommit <= 1
            /\ hist[p].faulted <=> ret[p].st = "Err"
            /\ ret[p].st = "Err" => ret[p].err \in {"InitTx", "Commit"}
            /\ ret[p].err = "InitTx" =>
                  /\ hist[p].ninvoke = 0 /\ hist[p].ncommit = 0
                  /\ tx[p] = NoTx
            /\ ret[p].err = "Commit" => hist[p].ninvoke = 1 /\ hist[p].ncommit = 1

C26_Witness ==
    \E p \in Procs :
        /\ Returned(p, "read_async")
        /\ ret[p] = Ret("Err", "InitTx", Unit)
        /\ hist[p].nbegin = 1 /\ hist[p].ninvoke = 0

\* C30: when the commit that ends write or write_async fails, the call returns
\* Err(Commit) without the closure's result, and the committed state stays the
\* one the transaction began on: none of the closure's mutations is in it.
C30_CommitFails ==
    [][\A p \in Procs :
          (call[p] \in WriteCalls /\ Commit(p, TRUE)) =>
              /\ ret'[p] = Ret("Err", "Commit", Unit)
              /\ tx'[p] = NoTx
              /\ db' = db /\ db' = hist[p].base
              /\ TypedOf(db') = hist[p].snap
              /\ model' = model]_vars

C30_Witness ==
    \E p \in Procs :
        /\ Returned(p, "write_async")
        /\ ret[p] = Ret("Err", "Commit", Unit)
        /\ res[p].tag = "Bool" /\ res[p].num = 1
        /\ hist[p].typed # hist[p].snap
        /\ TypedOf(db) = hist[p].snap

\* C23: inside a write transaction a get returns what the committed state at
\* its begin and the transaction's own puts, deletes and clears before the get,
\* applied in the order they were issued, leave under the key; a commit makes
\* the committed state that of the commits before it followed by this
\* transaction's writes.
C23_ProgramOrder ==
    [][\A p \in Procs :
          call[p] = "write" =>
              /\ \A tn \in Names, k \in Keys :
                    Get(p, tn, k, FALSE) => res'[p] = OkOf(hist[p].typed[tn][k])
              /\ Commit(p, FALSE) =>
                    /\ hist[p].snap = model
                    /\ model' = hist[p].typed
                    /\ TypedOf(db') = hist[p].typed]_vars

C23_Witness ==
    \E p \in Procs, tn \in Names, k \in Keys :
        /\ call[p] = "write" /\ pc[p] = "run"
        /\ res[p].tag = "Some"
        /\ hist[p].typed[tn][k] = SomeVal(res[p].val)
        /\ \A n \in Names, j \in Keys : ~hist[p].snap[n][j].some

\* C25: a put that the engine rejects returns the write error of operation
\* Put, the table's name and the encoded key, with no field for the value, and
\* leaves the transaction's pending writes and the committed state as they
\* were.
C25_PutError ==
    [][\A p \in Procs, tn \in Names, k \in Keys, v \in Vals :
          Put(p, tn, k, v, FALSE, TRUE) =>
              /\ res'[p] = WriteErr("Put", tn, Encode(k))
              /\ DOMAIN res'[p].val = {"info", "operation", "table_name", "key"}
              /\ tx'[p].view = tx[p].view
              /\ db' = db]_vars

C25_Witness ==
    \E p \in Procs :
        /\ pc[p] = "run"
        /\ res[p].tag = "Write" /\ res[p].val.operation = "Put"
        /\ hist[p].typed # hist[p].snap
        /\ TypedOf(tx[p].view) = hist[p].typed

\* C27: every transaction begins with a handle cache of NUM_TABLES empty
\* slots; a slot of a transaction's cache is filled only by an open_db of that
\* transaction, and resolving a handle in one transaction changes no other
\* transaction's cache.
C27_HandlesPrivate ==
    [][\A p \in Procs :
          /\ (tx[p].kind = "none" /\ tx'[p].kind # "none") =>
                tx'[p].handles = [i \in 1 .. NUM_TABLES |-> NoDbi]
          /\ (tx[p].kind # "none" /\ tx'[p].kind # "none") =>
                /\ \A t \in Members :
                      tx'[p].handles[as_usize(t) + 1] # tx[p].handles[as_usize(t) + 1] =>
                          /\ tx[p].handles[as_usize(t) + 1] = NoDbi
                          /\ hist'[p].opened[name(t)] = hist[p].opened[name(t)] + 1
                /\ tx'[p].handles # tx[p].handles =>
                      \A q \in Procs \ {p} : tx'[q] = tx[q]]_vars

C27_Witness ==
    \E p \in Procs, q \in Procs, t \in Members :
        /\ tx[p].kind # "none" /\ tx[q].kind # "none" /\ p # q
        /\ tx[p].handles[as_usize(t) + 1] # NoDbi
        /\ tx[q].handles = [i \in 1 .. NUM_TABLES |-> NoDbi]
        /\ hist[q].used = [n \in Names |-> FALSE]

\* C28: as_usize of a registry member is below NUM_TABLES, is the member's
\* place in ALL and is no other member's index; so the cache of every
\* transaction has NUM_TABLES slots, get_dbi never fails to find its slot, and
\* a slot holds no handle or the handle of its own table.
C28_CacheIndex ==
    /\ \A t \in Members : as_usize(t) < NUM_TABLES /\ ALL[as_usize(t) + 1] = t
    /\ \A t \in Members, u \in Members : as_usize(t) = as_usize(u) => t = u
    /\ \A p \in Procs :
          /\ res[p].st # "Panic"
          /\ tx[p].kind # "none" =>
                /\ Len(tx[p].handles) = NUM_TABLES
                /\ \A t \in Members :
                      tx[p].handles[as_usize(t) + 1] \in {NoDbi, DbiOf(name(t))}

C28_Witness ==
    \E p \in Procs :
        /\ tx[p].kind # "none"
        /\ \A t \in Members : tx[p].handles[as_usize(t) + 1] = DbiOf(name(t))
        /\ hist[p].used = [n \in Names |-> TRUE]

\* C29: clear(table) empties that table in the transaction: entries is 0 and
\* every get on it returns None afterwards; the other tables and the committed
\* state are as they were; the commit that ends the transaction makes the
\* removal committed with the transaction's other writes, and a failed commit
\* discards it with them.
C29_Clear ==
    [][\A p \in Procs :
          /\ \A tn \in Names :
                Clear(p, tn, FALSE) =>
                    /\ res'[p] = Unit
                    /\ tx'[p].view.data[tn] = {}
                    /\ tx_entries(tx'[p], tn, FALSE).res = Res("Ok", "Count", NoThing, 0)
                    /\ \A k \in Keys :
                          \A o \in tx_get(tx'[p], tn, k, FALSE) : o.res = OkOf(NoneVal)
                    /\ \A n \in Names \ {tn} : tx'[p].view.data[n] = tx[p].view.data[n]
                    /\ db' = db
          /\ \A f \in Bool :
                (call[p] = "write" /\ Commit(p, f)) =>
                    db' = (IF f THEN db ELSE tx[p].view)]_vars

C29_Witness ==
    \E p \in Procs, n \in Names :
        /\ call[p] = "write" /\ pc[p] = "run"
        /\ db.data[n] # {}
        /\ tx[p].view.data[n] = {}
        /\ res[p] = Unit
        /\ hist[p].typed[n] = [k \in Keys |-> NoneVal]

C31_FailedOpen ==
    [][\A p \in Procs, t \in Members :
          LET n == name(t)
              i == as_usize(t) + 1
          IN (tx[p].kind # "none" /\ tx'[p].kind # "none") =>
                /\ hist'[p].failed[n] = hist[p].failed[n] + 1 =>
                      /\ res'[p] = Err("InitCursor")
                      /\ tx[p].handles[i] = NoDbi
                      /\ tx'[p].handles = tx[p].handles
                      /\ tx'[p].view = tx[p].view
                /\ tx[p].handles[i] # NoDbi => tx'[p].handles[i] = tx[p].handles[i]
                /\ (hist[p].failed[n] > 0 /\ tx[p].handles[i] = NoDbi) =>
                      /\ get_dbi(tx[p], n, FALSE).opens = 1
                      /\ get_dbi(tx[p], n, FALSE).handles =
                             [tx[p].handles EXCEPT ![i] = DbiOf(n)]
                      /\ get_dbi(tx[p], n, TRUE).opens = 1
                      /\ get_dbi(tx[p], n, TRUE).handles = tx[p].handles]_vars

C31_Witness ==
    \E p \in Procs, t \in Members :
        /\ tx[p].kind # "none"
        /\ hist[p].failed[name(t)] = 1 /\ hist[p].opened[name(t)] = 1
        /\ tx[p].handles[as_usize(t) + 1] = DbiOf(name(t))
        /\ res[p].st = "Ok"

\* C34: a write transaction begun by write_async ends in a commit or an abort.
\* When the closure's future completes the transaction is committed (once; its
\* writes become the committed state unless the engine fails the commit); when
\* the write_async future is dropped while the closure runs, the transaction
\* is aborted, the committed state stays as it was when the transaction began,
\* and the write slot is free for the next write transaction. No write_async
\* call is left holding a transaction.
C34_CommitOrAbort ==
    [][\A p \in Procs :
          (call[p] = "write_async" /\ pc[p] = "run") =>
              /\ tx[p].kind = "RW" /\ writer = p
              /\ pc'[p] # "run" =>
                    /\ tx'[p] = NoTx
                    /\ writer' = NoProc /\ rw_slot_free(writer')
                    /\ pc'[p] \in {"returned", "idle"}
                    /\ pc'[p] = "returned" =>
                          /\ hist'[p].ncommit = 1
                          /\ ret'[p].st = "Ok" => db' = tx[p].view /\ model' = hist[p].typed
                          /\ ret'[p].st # "Ok" => db' = db /\ model' = model
                    /\ pc'[p] = "idle" =>
                          /\ hist'[p].ncommit = 0
                          /\ db' = db /\ db' = hist[p].base
                          /\ model' = model /\ TypedOf(db') = hist[p].snap]_vars

\* A write_async future that had written was dropped, and another caller's
\* write transaction has begun since on the state the dropped one began on.
C34_Witness ==
    \E p \in Procs, q \in Procs :
        /\ pc[p] = "idle" /\ hist[p].nbegin = 1 /\ hist[p].ncommit = 0
        /\ hist[p].intent # hist[p].snap
        /\ hist[p].after = hist[p].base
        /\ call[q] \in WriteCalls /\ pc[q] = "run" /\ tx[q].kind = "RW" /\ writer = q
        /\ hist[q].base = hist[p].base

\* The opener p is past the acquisition of a read-write open, or owns the
\* read-write environment it returned.
HoldsLock(p, pcv, callv, retv) ==
    callv[p] = "open_rw" /\ (pcv[p] = "open" \/ (pcv[p] = "returned" /\ retv[p].st = "Ok"))

\* The lock is held exactly when an opener holds it, and by one at most.
LockDiscipline(lf, pcv, callv, retv) ==
    /\ lf = "held" <=> \E p \in Procs : HoldsLock(p, pcv, callv, retv)
    /\ Cardinality({p \in Procs : HoldsLock(p, pcv, callv, retv)}) <= 1

\* C33: a read-write DatabaseEnv holds the storage lock from its acquisition,
\* before the engine is opened, until the environment is dropped. A
\* read-write open that finds the lock held returns Err(Other) from the
\* acquisition, without reaching the engine's open and without touching the
\* lock; one that fails after the acquisition returns with the lock released;
\* a read-only open never changes the lock. The lock is held exactly when one
\* opener is opening or owns a read-write environment, so no two read-write
\* environments of the location are open at once.
C33_StorageLock ==
    [][/\ LockDiscipline(lockfile, pc, call, ret)
       /\ LockDiscipline(lockfile', pc', call', ret')
       /\ \A p \in Procs :
             /\ (pc[p] = "idle" /\ pc'[p] = "returned") =>
                   /\ call'[p] = "open_rw" /\ ret'[p] = Ret("Err", "Other", Unit)
                   /\ lockfile = "held" /\ lockfile' = lockfile /\ loc' = loc
             /\ (pc[p] = "idle" /\ pc'[p] = "open" /\ call'[p] = "open_rw") =>
                   lockfile = "free" /\ lockfile' = "held" /\ loc' = loc
             /\ (pc[p] = "open" /\ call[p] = "open_rw" /\ pc'[p] = "returned") =>
                   /\ ret'[p].st \in {"Ok", "Err"}
                   /\ ret'[p].st = "Ok" => lockfile' = "held"
                   /\ ret'[p].st = "Err" =>
                         lockfile' = "free" /\ ret'[p].err \in {"LogLevelUnavailable", "Open"}
             /\ ((call[p] = "open_ro" \/ call'[p] = "open_ro") /\ pc'[p] # pc[p]) =>
                   lockfile' = lockfile]_vars

\* One opener owns an open read-write environment while the other's
\* read-write open has returned the lock's error.
C33_Witness ==
    \E p \in Procs, q \in Procs :
        /\ call[p] = "open_rw" /\ pc[p] = "returned" /\ ret[p] = Ret("Ok", "", Unit)
        /\ call[q] = "open_rw" /\ pc[q] = "returned" /\ ret[q] = Ret("Err", "Other", Unit)
        /\ lockfile = "held"

\* C32: under every interleaving of the get_dbi calls that the threads of one
\* closure make on its transaction, at most one thread is between the
\* emptiness check and the store, each table's handle is opened successfully
\* at most once, a slot is filled exactly when that open happened, and every
\* call that returned Ok returned the handle that is in the table's slot, so
\* the callers for one table hold the same handle.
C32_RaceFree ==
    /\ Cardinality({p \in Procs : threads[p].at \in {"locked", "open", "unlock"}}) <= 1
    /\ \A p \in Procs : threads[p].at \in {"locked", "open", "unlock"} => guard = p
    /\ \A t \in Members :
          /\ hist[Owner].opened[name(t)] <= 1
          /\ tx[Owner].handles[as_usize(t) + 1] # NoDbi <=> hist[Owner].opened[name(t)] = 1
    /\ \A p \in Procs :
          threads[p].st = "Ok" =>
              /\ threads[p].dbi # NoDbi
              /\ threads[p].dbi = tx[Owner].handles[as_usize(from_str(threads[p].tn).t) + 1]
    /\ \A p \in Procs, q \in Procs :
          (threads[p].st = "Ok" /\ threads[q].st = "Ok" /\ threads[p].tn = threads[q].tn) =>
              threads[p].dbi = threads[q].dbi

\* Both threads called get_dbi for one table; the table was opened once, and
\* both calls have returned Ok with the same handle.
C32_Witness ==
    \E p \in Procs, q \in Procs :
        /\ p # q
        /\ threads[p].at = "out" /\ threads[p].st = "Ok"
        /\ threads[q].at = "out" /\ threads[q].st = "Ok"
        /\ threads[p].tn = threads[q].tn
        /\ hist[Owner].opened[threads[p].tn] = 1
        /\ threads[p].dbi = threads[q].dbi

=============================================================================
